---- MODULE Spec2Model ----
(***************************************************************************)
(* Model of the resume tailoring pipeline: the Oracle client               *)
(* (call_gemini_api, phase3_ai_analysis.py), the Tailoring Engine          *)
(* (iterative_tailoring_and_pdf_gen, phase4_tailoring.py) with the edit    *)
(* application (edit_html_with_ai_suggestions), and the passes of          *)
(* Phase 3, Phase 4 and Phase 5 over the job store.                        *)
(***************************************************************************)
EXTENDS Integers, Sequences, FiniteSets, TLC

\* ------------------------------------------------------------------------
\* Configuration values (main_workflow_naukri.py) and bounds
\* ------------------------------------------------------------------------

\* CONFIG_PHASE4_NAUKRI["max_tailoring_attempts"]
max_tailoring_attempts == 3

\* default of call_gemini_api's max_attempts parameter
api_max_attempts == 3

\* CONFIG_PHASE4_NAUKRI["max_retailoring_attempts"]
max_retailoring_attempts == 2

\* minimum length of a usable job description (len(jd) < 50 is rejected)
MinJdLen == 50

\* analyze_resume_fit_with_gemini rejects a resume text shorter than this
MinResumeLen == 100

\* CONFIG_PHASE4_NAUKRI["score_threshold"] = 2.5, in quarter stars (scores
\* are multiples of 0.25 and are counted in quarters throughout)
score_threshold == 10

\* CONFIG_PHASE4_NAUKRI["save_interval"], used by Phase 4 and Phase 5
save_interval == 3

\* config['ai'].get('save_interval', 5), used by Phase 3
save_interval_p3 == 5

\* number of job records in the store
NumRows == 1

\* number of job records in the store a single pass is run over
PassRows == 2

\* largest value the model lets a re-tailoring counter take
AttemptsCap == 4

\* largest page count the renderer is taken to produce
MaxPages == 2

\* number of Oracle requests of the stand-alone client specification
MaxRequests == 2

\* ------------------------------------------------------------------------
\* Status strings (CONFIG_STATUS_NAUKRI).  A status is a base string plus an
\* optional parenthesised marker and attempt number, as the f-strings of the
\* engine build it; the unsuffixed status has marker "" and att 0.
\* ------------------------------------------------------------------------

Status(base, marker, att) == [base |-> base, marker |-> marker, att |-> att]

Plain(base) == Status(base, "", 0)

SUCCESS == "Tailored Resume Created"

NEEDS_EDIT == "Tailored Needs Manual Edit"

FAILED_TAILORING == "Error - AI Tailoring"

FAILED_HTML_EDIT == "Error - HTML Edit"

FAILED_PDF_GEN == "Error - PDF Generation"

FAILED_FILE_ACCESS == "Error - File Access"

READY_FOR_AI == "Ready for AI"

PROCESSING_AI == "Processing AI Analysis"

AI_ANALYZED == "AI Analyzed"

SKIPPED_LOW_SCORE == "Skipped - Low AI Score"

TAILORING == "Tailoring Resume"

RESCORING == "Rescoring Tailored Resume"

IMPROVED == "Rescored - Improved"

MAINTAINED == "Rescored - Maintained"

DECLINED == "Rescored - Declined"

NEEDS_RETAILORING == "Needs Re-Tailoring"

FAILED_AI_EXTRACTION == "Error - AI Extraction"

FAILED_AI_ANALYSIS == "Error - AI Analysis"

FAILED_RESCORING == "Error - Rescoring Failed"

FAILED_API_CONFIG == "Error - API Config/Auth"

MISSING_DATA == "Error - Missing Input Data"

MAX_RETAILORING == "Error - Max Re-Tailoring Attempts"

SCORE_COMPARISON == "Error - Score Comparison Failed"

MISSING_TAILORED_HTML == "Error - Tailored HTML Missing for Rescore"

UNKNOWN_ERROR == "Error - Unknown"

\* ------------------------------------------------------------------------
\* Text: a heading or a title is a sequence of characters, so that
\* strip(), lower() and substring containment are computed, not assumed.
\* ------------------------------------------------------------------------

Lower(c) == IF c = "A" THEN "a" ELSE IF c = "B" THEN "b" ELSE c

LowerStr(s) == [i \in 1..Len(s) |-> Lower(s[i])]

RECURSIVE LStrip(_)
LStrip(s) == IF s # <<>> /\ Head(s) = " " THEN LStrip(Tail(s)) ELSE s

RECURSIVE RStrip(_)
RStrip(s) == IF s # <<>> /\ s[Len(s)] = " " THEN RStrip(SubSeq(s, 1, Len(s) - 1)) ELSE s

Strip(s) == RStrip(LStrip(s))

\* Python's `sub in s`
Contains(sub, s) == \E i \in 0..(Len(s) - Len(sub)) : SubSeq(s, i + 1, i + Len(sub)) = sub

\* ------------------------------------------------------------------------
\* Resume document and structured edit
\* ------------------------------------------------------------------------

\* the four keys the engine requires of an Oracle result
required_keys == {"tailored_summary", "relevant_experience_title", "tailored_bullets", "skill_categories"}

NoEdit == [tailored_summary |-> "", relevant_experience_title |-> <<>>, tailored_bullets |-> <<>>, skill_categories |-> <<>>]

\* Oracle edits the model draws from: a full edit, a shorter one whose title
\* is a fragment of a heading, one whose title matches no heading, one that
\* only supplies skills, and one with nothing usable.
Edits ==
  { [tailored_summary |-> "S1", relevant_experience_title |-> <<"a", "b">>, tailored_bullets |-> <<"b1", "", "b2">>, skill_categories |-> <<[category |-> "K1", skills |-> <<"s1">>]>>],
    [tailored_summary |-> "S2", relevant_experience_title |-> <<" ", "A">>, tailored_bullets |-> <<"b3">>, skill_categories |-> <<[category |-> "K1", skills |-> <<"s1">>], [category |-> "K0", skills |-> <<>>]>>],
    [tailored_summary |-> "S1", relevant_experience_title |-> <<"B", "B">>, tailored_bullets |-> <<"b1">>, skill_categories |-> <<>>],
    [tailored_summary |-> "", relevant_experience_title |-> <<>>, tailored_bullets |-> <<>>, skill_categories |-> <<[category |-> "K2", skills |-> <<"s2">>]>>],
    [tailored_summary |-> "", relevant_experience_title |-> <<" ">>, tailored_bullets |-> <<"b1">>, skill_categories |-> <<>>] }

Employer(h3, clearfix, hasUl, bullets) == [h3 |-> h3, clearfix |-> clearfix, hasUl |-> hasUl, bullets |-> bullets]

EduUl(lis, hasPrev) == [lis |-> lis, hasPrev |-> hasPrev]

\* Base resumes: a complete one; one whose first employer has no bullet list
\* and whose education lists are empty; one without summary, experience and
\* skills sections whose education list has no preceding sibling element.
\* pretty tells whether the markup of the file is laid out as
\* BeautifulSoup's prettify() lays it out (every tag and every string on a
\* line of its own, indented by depth): the second file is, the others are
\* written as their author wrote them.
BaseResumes ==
  { [summarySec |-> TRUE, summary |-> "S0", expH2 |-> TRUE,
     exps |-> <<Employer(<<"A", "b">>, TRUE, TRUE, <<"x1", "x2">>), Employer(<<"B", "a">>, TRUE, TRUE, <<"y1">>)>>,
     skillsSec |-> TRUE, skills |-> <<[category |-> "K0", skills |-> <<"s0">>]>>,
     eduH2 |-> TRUE, eduUls |-> <<EduUl(<<>>, TRUE), EduUl(<<"e1", "e2">>, TRUE)>>, pretty |-> FALSE],
    [summarySec |-> TRUE, summary |-> "S0", expH2 |-> TRUE,
     exps |-> <<Employer(<<"A", "b">>, TRUE, FALSE, <<>>), Employer(<<"a", "B", "a">>, TRUE, TRUE, <<"y1">>)>>,
     skillsSec |-> TRUE, skills |-> <<[category |-> "K0", skills |-> <<"s0">>]>>,
     eduH2 |-> TRUE, eduUls |-> <<EduUl(<<>>, TRUE)>>, pretty |-> TRUE],
    [summarySec |-> FALSE, summary |-> "", expH2 |-> FALSE,
     exps |-> <<>>,
     skillsSec |-> FALSE, skills |-> <<>>,
     eduH2 |-> TRUE, eduUls |-> <<EduUl(<<"e1">>, FALSE)>>, pretty |-> FALSE] }

NonEmpty(seq) == SelectSeq(seq, LAMBDA x : x # "")

\* index of the first employer heading that contains the title, 0 if none
\* (the loop over h3 tags stops at the first heading that matches)
MatchingH3(doc, title) ==
  LET hits == {i \in 1..Len(doc.exps) : Contains(LowerStr(title), LowerStr(Strip(doc.exps[i].h3)))}
  IN IF hits = {} THEN 0 ELSE CHOOSE i \in hits : \A j \in hits : i <= j

\* the bullet list that is rewritten: the one of the first matching heading,
\* if that heading has its wrapper and a following list; 0 otherwise
TargetUl(doc, title) ==
  LET i == MatchingH3(doc, title)
  IN IF i # 0 /\ doc.exps[i].clearfix /\ doc.exps[i].hasUl THEN i ELSE 0

SummaryApplies(doc, e) == doc.summarySec /\ e.tailored_summary # ""

ExperienceApplies(doc, e) ==
  /\ doc.expH2
  /\ Strip(e.relevant_experience_title) # <<>>
  /\ e.tailored_bullets # <<>>
  /\ TargetUl(doc, Strip(e.relevant_experience_title)) # 0

SkillsApplies(doc, e) == doc.skillsSec /\ e.skill_categories # <<>>

\* soup.prettify(): the whole document is serialised anew in prettify's
\* layout, the sections the edit did not touch included
prettify(doc) == [doc EXCEPT !.pretty = TRUE]

\* edit_html_with_ai_suggestions: the edited document and the flag
\* "some section was changed"
edit_html_with_ai_suggestions(base, e) ==
  LET d1 == IF SummaryApplies(base, e) THEN [base EXCEPT !.summary = e.tailored_summary] ELSE base
      t  == TargetUl(base, Strip(e.relevant_experience_title))
      d2 == IF ExperienceApplies(base, e)
            THEN [d1 EXCEPT !.exps[t].bullets = NonEmpty(e.tailored_bullets)]
            ELSE d1
      d3 == IF SkillsApplies(base, e)
            THEN [d2 EXCEPT !.skills = SelectSeq(e.skill_categories, LAMBDA c : c.skills # <<>>)]
            ELSE d2
  IN [doc |-> prettify(d3), modified |-> SummaryApplies(base, e) \/ ExperienceApplies(base, e) \/ SkillsApplies(base, e)]

\* the first of the (at most five) lists after the education heading that
\* has items; 0 if there is none
FirstEduUl(doc) ==
  LET hits == {i \in 1..Len(doc.eduUls) : i <= 5 /\ doc.eduUls[i].lis # <<>>}
  IN IF ~doc.eduH2 \/ hits = {} THEN 0 ELSE CHOOSE i \in hits : \A j \in hits : i <= j

RemoveLastEduBullet(doc) ==
  LET i == FirstEduUl(doc)
  IN prettify([doc EXCEPT !.eduUls[i].lis = SubSeq(@, 1, Len(@) - 1)])

\* ------------------------------------------------------------------------
\* State
\* ------------------------------------------------------------------------

VARIABLES
  \* Oracle client (call_gemini_api)
  api_pc,               \* "idle", "call" (inside call_gemini_api), "ret" (returned)
  is_json_output,       \* the is_json_output argument
  api_attempt,          \* the attempt argument of the current (recursive) call
  api_log,              \* outcomes of the model calls of the current request
  gemini_response,      \* value returned by call_gemini_api
  caller,               \* who issued the request
  requests,             \* requests issued so far (stand-alone client)
  \* Tailoring Engine (iterative_tailoring_and_pdf_gen)
  pc,                   \* position in the engine
  base_html_content,    \* the base resume
  is_retailoring_attempt,
  attempt,              \* loop variable
  prompt,               \* strategy and context of the prompt last built
  final_status,
  latest_ai_json_data,
  page_count,
  edited,               \* edited_html_string, modified_flag
  html_file,            \* file at html_filepath
  pdf_file,             \* file at pdf_filepath
  trace,                \* external calls made by this invocation, in order
  \* Job store and the pass running over it
  store,                \* the rows of the spreadsheet file
  disk,                 \* per row: a tailored HTML file exists at the job's path
  df,                   \* the DataFrame of the running pass
  run,                  \* "none", or the phase whose row loop is running
  todo,                 \* rows_to_process_idx still to be processed
  processed_in_run,
  retry_failed,         \* the retry flag of the running pass
  invocations,          \* engine invocations of the running Phase 4 pass, scorer calls of the running Phase 5 pass, in order
  \* Fit Scorer (analyze_resume_fit_with_gemini) and its caller
  fit_pc,               \* "idle", "called" (waiting for the Oracle), "done" (returned), "summed"
  fit_args,             \* lengths of resume_plain_text and jd_plain_text
  analysis_results,     \* the mapping the Fit Scorer returns
  fit_total             \* the total the caller computes from it

apiVars == <<api_pc, is_json_output, api_attempt, api_log, gemini_response, caller, requests>>

engineVars == <<pc, base_html_content, is_retailoring_attempt, attempt, prompt, final_status, latest_ai_json_data, page_count, edited, html_file, pdf_file, trace>>

storeVars == <<store, disk, df, run, todo, processed_in_run, retry_failed, invocations>>

fitVars == <<fit_pc, fit_args, analysis_results, fit_total>>

vars == <<apiVars, engineVars, storeVars, fitVars>>

\* ------------------------------------------------------------------------
\* Oracle client: call_gemini_api
\* ------------------------------------------------------------------------

\* What one model call can end in.  The three exception kinds are the ones
\* the except clause distinguishes by the exception text.
BusyOutcome == "exc_rate_limit"

ExceptionOutcomes == {BusyOutcome, "exc_invalid_key", "exc_other"}

ResponseFailures == {"blocked", "no_candidates", "max_tokens", "bad_finish", "no_text"}

JsonFailures == {"empty_json", "bad_json", "not_object"}

Outcomes(json) == ExceptionOutcomes \cup ResponseFailures \cup (IF json THEN JsonFailures \cup {"object"} ELSE {"text"})

FailureOutcomes == ExceptionOutcomes \cup ResponseFailures \cup JsonFailures

\* a value returned by call_gemini_api: a mapping (its keys, and the edit it
\* carries when it is an Oracle edit) or a string
Mapping(keys, err, e) == [type |-> "dict", keys |-> keys, err |-> err, edit |-> e]

ErrorMarker(err, extra) == Mapping({"error"} \cup extra, err, NoEdit)

Text(err) == [type |-> "str", keys |-> {}, err |-> err, edit |-> NoEdit]

\* key sets of the JSON objects the model may answer with
ObjectKeys == {required_keys, required_keys \ {"skill_categories"}, required_keys \cup {"error"}, {}}

JsonObjects == {Mapping(k, "", e) : k \in ObjectKeys, e \in Edits}

ErrorText(o) ==
  CASE o = "blocked" -> "ERROR: Prompt blocked"
    [] o = "no_candidates" -> "ERROR: No response candidates"
    [] o = "max_tokens" -> "ERROR: Output truncated"
    [] o = "bad_finish" -> "ERROR: Response stopped unexpectedly"
    [] o = "no_text" -> "ERROR: No text content"
    [] o = "empty_json" -> "Empty JSON response"
    [] o = "bad_json" -> "Failed to parse JSON"
    [] o = "not_object" -> "Parsed response is not JSON object"
    [] o = "exc_invalid_key" -> "ERROR: Invalid Gemini API Key."
    [] OTHER -> "ERROR: API Call Failed"

ErrorExtra(o) ==
  CASE o \in {"max_tokens", "bad_finish"} -> {"partial_response"}
    [] o \in {"bad_json", "not_object"} -> {"raw_response"}
    [] OTHER -> {}

\* ApiResult handing back whatever the reply parsed to, an object or not
ApiResultAsParsed(o, json, obj) ==
  IF o = "object" THEN obj
  ELSE IF o = "text" \/ o = "not_object" THEN Text("")
  ELSE IF json THEN ErrorMarker(ErrorText(o), ErrorExtra(o))
  ELSE Text(ErrorText(o))

\* the value call_gemini_api returns for a model call that is not retried
ApiResult(o, json, obj) ==
  IF o = "object" THEN obj
  ELSE IF o = "text" THEN Text("")
  ELSE IF json THEN ErrorMarker(ErrorText(o), ErrorExtra(o))
  ELSE Text(ErrorText(o))

\* ShouldRetry with every exception retried, whatever its text
ShouldRetryAnyException(o, att) == o \in ExceptionOutcomes /\ att < api_max_attempts

\* the except clause retries a rate-limit/server-busy error while
\* attempt < max_attempts
ShouldRetry(o, att) == o = BusyOutcome /\ att < api_max_attempts

\* one model.generate_content call and what call_gemini_api does with it:
\* either the recursive call with attempt + 1, or the return
ApiTry ==
  /\ UNCHANGED <<storeVars, fitVars>>
  /\ api_pc = "call"
  /\ \E o \in Outcomes(is_json_output), obj \in JsonObjects :
       /\ (o # "object" => obj = CHOOSE x \in JsonObjects : TRUE)
       /\ api_log' = Append(api_log, o)
       /\ IF ShouldRetry(o, api_attempt)
          THEN /\ api_attempt' = api_attempt + 1
               /\ UNCHANGED <<api_pc, gemini_response>>
          ELSE /\ api_pc' = "ret"
               /\ gemini_response' = ApiResult(o, is_json_output, obj)
               /\ UNCHANGED api_attempt
  /\ UNCHANGED <<is_json_output, caller, requests, engineVars>>

\* the callers of call_gemini_api and the arguments they pass:
\* extract_job_details_with_gemini (JSON, default attempt),
\* analyze_resume_fit_with_gemini (text, default attempt),
\* iterative_tailoring_and_pdf_gen (JSON, attempt = the engine's attempt)
Callers == {"extract", "analyze", "tailor"}

CallerJson(c) == c # "analyze"

CallerAttempts(c) == IF c = "tailor" THEN 1..max_tailoring_attempts ELSE {1}

\* ------------------------------------------------------------------------
\* Tailoring Engine: iterative_tailoring_and_pdf_gen
\* ------------------------------------------------------------------------

\* values get_pdf_page_count returns: -1 file not found, -2 read error,
\* otherwise the number of pages
PageCounts == (-2)..MaxPages

\* tag of the files written by the post-loop edit
FinalEdit == max_tailoring_attempts + 1

\* an external call of the invocation: the Oracle request ("oracle", ok =
\* the result passed validation, n = model calls it took, val = the value
\* returned), the edit application ("edit", ok = modified_flag), the HTML
\* write ("write"), the PDF generation ("render"), the page count
\* ("measure", n = the count) and the post-loop edit ("fallback_edit")
Event(ev, att, ok, n, val) == [ev |-> ev, att |-> att, ok |-> ok, n |-> n, val |-> val]

NoVal == Text("")

NoPrompt == [strategy |-> "none", context |-> NoVal]

\* BuildPrompt with condensation prompts that carry no earlier output
BuildPromptWithoutContext(att, retailoring, latest) ==
  IF att = 1 THEN [strategy |-> IF retailoring THEN "revise" ELSE "generate", context |-> NoVal]
  ELSE IF att = 2 THEN [strategy |-> "condense_minor", context |-> NoVal]
  ELSE [strategy |-> "condense_major", context |-> NoVal]

\* the prompt of an attempt: which instruction it carries and which earlier
\* result it embeds
BuildPrompt(att, retailoring, latest) ==
  IF att = 1 THEN [strategy |-> IF retailoring THEN "revise" ELSE "generate", context |-> NoVal]
  ELSE IF att = 2 THEN [strategy |-> "condense_minor", context |-> latest]
  ELSE [strategy |-> "condense_major", context |-> latest]

File(exists, doc, by) == [exists |-> exists, doc |-> doc, by |-> by]

\* Rejection without the check of line 262 for the four required keys
RejectionWithoutKeyCheck(r) ==
  IF r.type = "dict" /\ "error" \in r.keys THEN "API Err Att."
  ELSE IF r.type # "dict" THEN "Invalid Resp Att."
  ELSE ""

\* lines 259-263: why a returned value is rejected ("" if it is accepted)
Rejection(r) ==
  IF r.type = "dict" /\ "error" \in r.keys THEN "API Err Att."
  ELSE IF r.type # "dict" THEN "Invalid Resp Att."
  ELSE IF required_keys \ r.keys # {} THEN "Missing Keys Att."
  ELSE ""

\* RejectedStatus tagged with the number of attempts left
RejectedStatusAttemptsLeft(r, att) == Status(FAILED_TAILORING, Rejection(r), max_tailoring_attempts - att)

\* lines 259-263: the final status set when a returned value is rejected
RejectedStatus(r, att) == Status(FAILED_TAILORING, Rejection(r), att)

\* what latest_ai_json_data becomes for a returned value
Latest(r) ==
  IF Rejection(r) = "API Err Att." THEN r
  ELSE IF Rejection(r) = "Invalid Resp Att." THEN ErrorMarker("Invalid API response type", {"raw_response"})
  ELSE IF Rejection(r) = "Missing Keys Att." THEN ErrorMarker("Missing keys", {"raw_response"})
  ELSE r

\* the attempt argument the engine passes to call_gemini_api (line 258)
EngineApiAttempt(att) == att

\* lines 193-258: top of the loop body, prompt construction, the call
StartAttempt ==
  /\ UNCHANGED <<storeVars, fitVars>>
  /\ pc = "loop"
  /\ IF attempt >= 2 /\ "error" \in latest_ai_json_data.keys
     THEN /\ pc' = "post"
          /\ UNCHANGED <<prompt, apiVars>>
     ELSE /\ prompt' = BuildPrompt(attempt, is_retailoring_attempt, latest_ai_json_data)
          /\ pc' = "oracle"
          /\ api_pc' = "call"
          /\ is_json_output' = TRUE
          /\ api_attempt' = EngineApiAttempt(attempt)
          /\ api_log' = <<>>
          /\ caller' = "tailor"
          /\ UNCHANGED <<gemini_response, requests>>
  /\ UNCHANGED <<base_html_content, is_retailoring_attempt, attempt, final_status, latest_ai_json_data, page_count, edited, html_file, pdf_file, trace>>

\* lines 259-264: validation of the returned value
Validate ==
  /\ UNCHANGED <<storeVars, fitVars>>
  /\ pc = "oracle"
  /\ api_pc = "ret"
  /\ api_pc' = "idle"
  /\ trace' = Append(trace, Event("oracle", attempt, Rejection(gemini_response) = "", Len(api_log), gemini_response))
  /\ latest_ai_json_data' = Latest(gemini_response)
  /\ IF Rejection(gemini_response) = ""
     THEN /\ pc' = "edit"
          /\ UNCHANGED final_status
     ELSE /\ pc' = "post"
          /\ final_status' = RejectedStatus(gemini_response, attempt)
  /\ UNCHANGED <<is_json_output, api_attempt, api_log, gemini_response, caller, requests>>
  /\ UNCHANGED <<base_html_content, is_retailoring_attempt, attempt, prompt, page_count, edited, html_file, pdf_file>>

\* EditSource with each edit applied on top of the document edited before
EditSourcePrevious(base, previous) == previous

\* line 265: the document an attempt's edit is applied to, given the base
\* and the document the attempt before produced
EditSource(base, previous) == base

\* lines 265-269: apply the edit to the base, write the HTML file.  The
\* modified_flag is stored and not looked at again.
EditAndWrite ==
  /\ UNCHANGED <<storeVars, fitVars>>
  /\ pc = "edit"
  /\ edited' = edit_html_with_ai_suggestions(EditSource(base_html_content, edited.doc), latest_ai_json_data.edit)
  /\ \E ok \in BOOLEAN :
       /\ trace' = trace \o <<Event("edit", attempt, edited'.modified, 0, latest_ai_json_data), Event("write", attempt, ok, 0, NoVal)>>
       /\ IF ok
          THEN /\ html_file' = File(TRUE, edited'.doc, attempt)
               /\ pc' = "render"
               /\ UNCHANGED final_status
          ELSE /\ final_status' = Status(FAILED_FILE_ACCESS, "HTML Save Err Att.", attempt)
               /\ pc' = "post"
               /\ UNCHANGED html_file
  /\ UNCHANGED <<apiVars, base_html_content, is_retailoring_attempt, attempt, prompt, latest_ai_json_data, page_count, pdf_file>>

\* lines 270-271: generate_pdf_from_html
Render ==
  /\ UNCHANGED <<storeVars, fitVars>>
  /\ pc = "render"
  /\ \E pdf_success \in BOOLEAN :
       /\ trace' = Append(trace, Event("render", attempt, pdf_success, 0, NoVal))
       /\ IF pdf_success
          THEN /\ pdf_file' = File(TRUE, html_file.doc, attempt)
               /\ pc' = "measure"
               /\ UNCHANGED final_status
          ELSE /\ final_status' = Status(FAILED_PDF_GEN, "Att.", attempt)
               /\ pc' = "post"
               /\ UNCHANGED pdf_file
  /\ UNCHANGED <<apiVars, base_html_content, is_retailoring_attempt, attempt, prompt, latest_ai_json_data, page_count, edited, html_file>>

\* MeasuredStatus with the attempt marker also put on a count above 1
MeasuredStatusSuffixed(n, att) ==
  IF n = 1 THEN Plain(SUCCESS)
  ELSE IF n > 1 THEN Status(NEEDS_EDIT, "Att.", att)
  ELSE Status(FAILED_PDF_GEN, "Validation Err Att.", att)

\* MeasuredStatus with a count of 0 taken for a document that is too long
MeasuredStatusZeroTooLong(n, att) ==
  IF n = 1 THEN Plain(SUCCESS)
  ELSE IF n >= 0 THEN Plain(NEEDS_EDIT)
  ELSE Status(FAILED_PDF_GEN, "Validation Err Att.", att)

\* MeasuredStatus with the attempt number attached to a one-page result
MeasuredStatusSuccessTagged(n, att) ==
  IF n = 1 THEN Status(SUCCESS, "Att.", att)
  ELSE IF n > 1 THEN Plain(NEEDS_EDIT)
  ELSE Status(FAILED_PDF_GEN, "Validation Err Att.", att)

\* MeasuredStatus with an empty PDF taken for a one-page result
MeasuredStatusEmptyFits(n, att) ==
  IF n \in {0, 1} THEN Plain(SUCCESS)
  ELSE IF n > 1 THEN Plain(NEEDS_EDIT)
  ELSE Status(FAILED_PDF_GEN, "Validation Err Att.", att)

\* lines 273-275: the status a measured page count gives
MeasuredStatus(n, att) ==
  IF n = 1 THEN Plain(SUCCESS)
  ELSE IF n > 1 THEN Plain(NEEDS_EDIT)
  ELSE Status(FAILED_PDF_GEN, "Validation Err Att.", att)

\* NextAttempt with the loop not left on a count of exactly 1
NextAttemptOnOnePage(n, att) == n >= 1 /\ att < max_tailoring_attempts

\* NextAttempt with one attempt more than max_tailoring_attempts
NextAttemptOneMore(n, att) == n > 1 /\ att <= max_tailoring_attempts

\* lines 273-276 and the range of line 193: the loop goes on to the next
\* attempt only after a count above 1 and while attempts are left
NextAttempt(n, att) == n > 1 /\ att < max_tailoring_attempts

\* lines 272-276: get_pdf_page_count and the stopping rule
Measure ==
  /\ UNCHANGED <<storeVars, fitVars>>
  /\ pc = "measure"
  /\ \E n \in PageCounts :
       /\ page_count' = n
       /\ trace' = trace \o <<Event("measure", attempt, TRUE, n, NoVal)>> \o
                    (IF NextAttempt(n, attempt) THEN <<Event("sleep", attempt, TRUE, 0, NoVal)>> ELSE <<>>)
       /\ final_status' = MeasuredStatus(n, attempt)
       /\ IF NextAttempt(n, attempt)
          THEN attempt' = attempt + 1 /\ pc' = "loop"
          ELSE pc' = "post" /\ UNCHANGED attempt
  /\ UNCHANGED <<apiVars, base_html_content, is_retailoring_attempt, prompt, latest_ai_json_data, edited, html_file, pdf_file>>

\* EntersFallback with the status matched by its prefix, on a PDF failure too
EntersFallbackOnPdfFailure(status) == status.base \in {NEEDS_EDIT, FAILED_PDF_GEN}

\* line 277: the post-loop edit is entered on the unsuffixed
\* Needs-Manual-Edit status only
EntersFallback(status) == status = Plain(NEEDS_EDIT)

PostLoop ==
  /\ UNCHANGED <<storeVars, fitVars>>
  /\ pc = "post"
  /\ pc' = IF EntersFallback(final_status) THEN "fallback" ELSE "done"
  /\ UNCHANGED <<apiVars, base_html_content, is_retailoring_attempt, attempt, prompt, final_status, latest_ai_json_data, page_count, edited, html_file, pdf_file, trace>>

\* lines 279-288, 294-295: read the HTML file back, remove the last item of
\* the first non-empty list after the education heading, write the file.
\* The log message of line 285 dereferences the list's previous sibling.
FallbackEdit ==
  /\ UNCHANGED <<storeVars, fitVars>>
  /\ pc = "fallback"
  /\ \E io \in {"ok", "read_error", "write_error"} :
       LET i == FirstEduUl(html_file.doc)
           raised == \/ io = "read_error"
                     \/ i # 0 /\ ~html_file.doc.eduUls[i].hasPrev
                     \/ i # 0 /\ io = "write_error"
           removed == i # 0 /\ ~raised
       IN /\ (i = 0 => io # "write_error")
          /\ trace' = Append(trace, Event("fallback_edit", FinalEdit, removed, 0, NoVal))
          /\ IF raised
             THEN /\ final_status' = Status(FAILED_TAILORING, "Final Edit Err", 0)
                  /\ pc' = "done"
                  /\ UNCHANGED html_file
             ELSE IF removed
             THEN /\ html_file' = File(TRUE, RemoveLastEduBullet(html_file.doc), FinalEdit)
                  /\ pc' = "fallback_render"
                  /\ UNCHANGED final_status
             ELSE /\ pc' = "done"
                  /\ UNCHANGED <<final_status, html_file>>
  /\ UNCHANGED <<apiVars, base_html_content, is_retailoring_attempt, attempt, prompt, latest_ai_json_data, page_count, edited, pdf_file>>

\* lines 289, 293: the re-render after the post-loop edit
FallbackRender ==
  /\ UNCHANGED <<storeVars, fitVars>>
  /\ pc = "fallback_render"
  /\ \E pdf_success \in BOOLEAN :
       /\ trace' = Append(trace, Event("render", FinalEdit, pdf_success, 0, NoVal))
       /\ IF pdf_success
          THEN /\ pdf_file' = File(TRUE, html_file.doc, FinalEdit)
               /\ pc' = "fallback_measure"
               /\ UNCHANGED final_status
          ELSE /\ final_status' = Status(FAILED_PDF_GEN, "Final Edit", 0)
               /\ pc' = "done"
               /\ UNCHANGED pdf_file
  /\ UNCHANGED <<apiVars, base_html_content, is_retailoring_attempt, attempt, prompt, latest_ai_json_data, page_count, edited, html_file>>

\* lines 290-292: the page count after the post-loop edit
FallbackMeasure ==
  /\ UNCHANGED <<storeVars, fitVars>>
  /\ pc = "fallback_measure"
  /\ \E n \in PageCounts :
       /\ page_count' = n
       /\ trace' = Append(trace, Event("measure", FinalEdit, TRUE, n, NoVal))
       /\ final_status' = IF n = 1 THEN Plain(SUCCESS) ELSE final_status
  /\ pc' = "done"
  /\ UNCHANGED <<apiVars, base_html_content, is_retailoring_attempt, attempt, prompt, latest_ai_json_data, edited, html_file, pdf_file>>

\* ------------------------------------------------------------------------
\* The Oracle client on its own, called by each of its callers
\* ------------------------------------------------------------------------

\* a caller issues a request (lines 200, 259 of phase3_ai_analysis.py and
\* line 258 of phase4_tailoring.py)
ApiRequest ==
  /\ UNCHANGED <<storeVars, fitVars>>
  /\ api_pc = "idle"
  /\ requests < MaxRequests
  /\ \E c \in Callers, a \in 1..max_tailoring_attempts :
       /\ a \in CallerAttempts(c)
       /\ caller' = c
       /\ is_json_output' = CallerJson(c)
       /\ api_attempt' = a
  /\ api_pc' = "call"
  /\ api_log' = <<>>
  /\ requests' = requests + 1
  /\ UNCHANGED <<gemini_response, engineVars>>

\* the caller takes the returned value
ApiDone ==
  /\ UNCHANGED <<storeVars, fitVars>>
  /\ api_pc = "ret"
  /\ api_pc' = "idle"
  /\ UNCHANGED <<is_json_output, api_attempt, api_log, gemini_response, caller, requests, engineVars>>

\* lines 182-192: the engine is entered with the base resume, the job's
\* re-tailoring flag and whatever an earlier invocation left at the paths
EngineInit ==
  /\ api_pc = "idle"
  /\ is_json_output = TRUE
  /\ api_attempt = 1
  /\ api_log = <<>>
  /\ gemini_response = NoVal
  /\ caller = "tailor"
  /\ requests = 0
  /\ pc = "loop"
  /\ base_html_content \in BaseResumes
  /\ is_retailoring_attempt \in BOOLEAN
  /\ attempt = 1
  /\ prompt = NoPrompt
  /\ final_status = Plain(FAILED_TAILORING)
  /\ latest_ai_json_data = ErrorMarker("No successful AI tailoring attempts.", {})
  /\ page_count = -1
  /\ edited = [doc |-> base_html_content, modified |-> FALSE]
  /\ \E old \in BOOLEAN :
       /\ html_file = File(old, base_html_content, 0)
       /\ pdf_file = File(old, base_html_content, 0)
  /\ trace = <<>>

ApiInit ==
  /\ api_pc = "idle"
  /\ is_json_output = TRUE
  /\ api_attempt = 1
  /\ api_log = <<>>
  /\ gemini_response = NoVal
  /\ caller = "extract"
  /\ requests = 0
  /\ pc = "off"
  /\ base_html_content = CHOOSE r \in BaseResumes : TRUE
  /\ is_retailoring_attempt = FALSE
  /\ attempt = 1
  /\ prompt = NoPrompt
  /\ final_status = Plain(FAILED_TAILORING)
  /\ latest_ai_json_data = ErrorMarker("No successful AI tailoring attempts.", {})
  /\ page_count = -1
  /\ edited = [doc |-> base_html_content, modified |-> FALSE]
  /\ html_file = File(FALSE, base_html_content, 0)
  /\ pdf_file = File(FALSE, base_html_content, 0)
  /\ trace = <<>>

\* ------------------------------------------------------------------------
\* Job store: the rows of the spreadsheet and the passes over them
\* ------------------------------------------------------------------------

\* an empty numeric cell (pd.NA; written as '' and read back as NaN)
NA == -1

Rows == 1..NumRows

\* a job description, by the length of its text and of its stripped text
JDs == {[raw |-> 60, stripped |-> 60], [raw |-> 52, stripped |-> 40], [raw |-> 10, stripped |-> 10]}

\* the five sub-scores of a fit analysis, in quarter stars, NA if the line
\* could not be parsed
Breakdown(kw, ach, summ, struct, tools) == [kw |-> kw, ach |-> ach, summ |-> summ, struct |-> struct, tools |-> tools]

Breakdowns == {Breakdown(NA, NA, NA, 4, NA), Breakdown(2, 2, 2, 4, 2), Breakdown(3, NA, 4, 1, 3), Breakdown(3, 3, 3, 2, 3)}

SumOf(scores) == IF scores = {} THEN NA ELSE
  LET RECURSIVE Sum(_)
      Sum(S) == IF S = {} THEN 0 ELSE LET x == CHOOSE y \in S : TRUE IN x[2] + Sum(S \ {x})
  IN Sum(scores)

\* calculate_total_score with the structure sub-score summed as well
calculate_total_score_all_five(b) ==
  SumOf({<<k, b[k]>> : k \in {f \in {"kw", "ach", "summ", "struct", "tools"} : b[f] # NA}})

\* calculate_total_score (Phase 5): the sum of the four summed sub-scores
\* that are present, NA if none is
calculate_total_score(b) ==
  SumOf({<<k, b[k]>> : k \in {f \in {"kw", "ach", "summ", "tools"} : b[f] # NA}})

\* lines 415-417 of process_ai_analysis (Phase 3): the same sum
Phase3Total(b) ==
  SumOf({<<k, b[k]>> : k \in {f \in {"kw", "ach", "summ", "tools"} : b[f] # NA}})

\* the fields of a row the passes read or write
InitialRow(jd) ==
  [Status |-> Plain(READY_FOR_AI), attempts |-> NA, total |-> NA, jd |-> jd,
   html |-> FALSE, tailored |-> NA, effectiveness |-> ""]

\* the value of the Retailoring Attempts cell as Phase 4 reads it
\* (fillna(0).astype(int), line 316; int(...) with fallback 0, line 186)
AttemptsValue(a) == IF a = NA THEN 0 ELSE a

RECURSIVE SortedSeq(_)
SortedSeq(S) == IF S = {} THEN <<>> ELSE LET m == CHOOSE x \in S : \A y \in S : x <= y IN <<m>> \o SortedSeq(S \ {m})

\* what a save of the DataFrame can end in: written, PermissionError, or
\* another exception
SaveOutcomes == {"saved", "perm_error", "other_error"}

\* the periodic save at the end of a row's processing
Checkpoint(n, interval, skipped) == ~skipped /\ n % interval = 0

\* the locals of a pass are gone when it returns
PassReturns ==
  /\ run' = "none"
  /\ todo' = <<>>
  /\ df' = store'
  /\ processed_in_run' = 0
  /\ retry_failed' = FALSE
  /\ invocations' = <<>>

\* FinishRow with the pass returning as soon as a row ends in a failure status
FinishRowStopsOnFailure(newdf, interval, skipped, save, newlog) ==
  LET n == processed_in_run + 1
      due == Checkpoint(n, interval, skipped)
      failed == newdf[Head(todo)].Status.base \in {FAILED_TAILORING, FAILED_PDF_GEN, FAILED_FILE_ACCESS, UNKNOWN_ERROR}
  IN /\ (~due => save = "saved")
     /\ IF (due /\ save = "perm_error") \/ failed
        THEN UNCHANGED store /\ PassReturns
        ELSE /\ df' = newdf
             /\ processed_in_run' = n
             /\ todo' = Tail(todo)
             /\ store' = IF due /\ save = "saved" THEN newdf ELSE store
             /\ invocations' = newlog
             /\ UNCHANGED <<run, retry_failed>>

\* the tail of a row's processing common to the three row loops: the
\* periodic save, which stops the pass on a PermissionError
FinishRow(newdf, interval, skipped, save, newlog) ==
  LET n == processed_in_run + 1
      due == Checkpoint(n, interval, skipped)
  IN /\ (~due => save = "saved")
     /\ IF due /\ save = "perm_error"
        THEN UNCHANGED store /\ PassReturns
        ELSE /\ df' = newdf
             /\ processed_in_run' = n
             /\ todo' = Tail(todo)
             /\ store' = IF due /\ save = "saved" THEN newdf ELSE store
             /\ invocations' = newlog
             /\ UNCHANGED <<run, retry_failed>>

\* the final save of a pass
EndPass(phase) ==
  /\ run = phase
  /\ todo = <<>>
  /\ \E ok \in BOOLEAN : store' = IF ok THEN df ELSE store
  /\ PassReturns
  /\ UNCHANGED <<disk, apiVars, engineVars, fitVars>>

\* ---- Phase 3: process_ai_analysis ----

\* P3Statuses with the unexpected-error status of Phase 4 among the retried ones
P3StatusesWithUnknownError(retry) ==
  {Plain(READY_FOR_AI)} \cup
  (IF retry THEN {Plain(FAILED_AI_EXTRACTION), Plain(FAILED_AI_ANALYSIS), Plain(FAILED_API_CONFIG), Plain(MISSING_DATA), Plain(UNKNOWN_ERROR)} ELSE {})

\* statuses_to_process (lines 332, 368-369)
P3Statuses(retry) ==
  {Plain(READY_FOR_AI)} \cup
  (IF retry THEN {Plain(FAILED_AI_EXTRACTION), Plain(FAILED_AI_ANALYSIS), Plain(FAILED_API_CONFIG), Plain(MISSING_DATA)} ELSE {})

\* lines 339-377: read the file, select the rows
P3Begin(from) ==
  /\ run = from
  /\ \E retry \in BOOLEAN :
       LET idx == SortedSeq({r \in DOMAIN store : store[r].Status \in P3Statuses(retry)})
       IN IF idx = <<>>
          THEN UNCHANGED store /\ PassReturns
          ELSE /\ retry_failed' = retry
               /\ df' = store
               /\ todo' = idx
               /\ run' = "p3"
               /\ processed_in_run' = 0
               /\ UNCHANGED <<store, invocations>>
  /\ UNCHANGED <<disk, apiVars, engineVars, fitVars>>

\* a Phase 3 pass of the workflow, on a store no pass is running over
P3Start == P3Begin("none")

\* the numeric columns Phase 3 empties when the fit analysis fails
\* (line 401: every column with Score, Attempt, Pages, Ago or Applicant
\* Count in its name)
ClearNumeric(row) == [row EXCEPT !.attempts = NA, !.total = NA, !.tailored = NA]

\* lines 381-419: one row of Phase 3
P3RowResult(row, extracted, analysis) ==
  IF row.jd.stripped < MinJdLen THEN [row EXCEPT !.Status = Plain(MISSING_DATA)]
  ELSE IF ~extracted THEN [row EXCEPT !.Status = Plain(FAILED_AI_EXTRACTION)]
  ELSE IF analysis.error THEN [ClearNumeric(row) EXCEPT !.Status = Plain(FAILED_AI_ANALYSIS)]
  ELSE [row EXCEPT !.Status = Plain(AI_ANALYZED), !.total = Phase3Total(analysis.b)]

\* what analyze_resume_fit_with_gemini hands back: an error or a breakdown
Analyses == {[error |-> TRUE, b |-> Breakdown(NA, NA, NA, NA, NA)]} \cup {[error |-> FALSE, b |-> b] : b \in Breakdowns}

P3Row ==
  /\ run = "p3"
  /\ todo # <<>>
  /\ LET r == Head(todo)
         short == df[r].jd.stripped < MinJdLen
     IN \E extracted \in BOOLEAN, analysis \in Analyses, save \in SaveOutcomes :
          /\ (short => extracted /\ analysis.error)
          /\ (~extracted => analysis.error)
          /\ FinishRow([df EXCEPT ![r] = P3RowResult(df[r], extracted, analysis)], save_interval_p3, short, save, invocations)
  /\ UNCHANGED <<disk, apiVars, engineVars, fitVars>>

P3End == EndPass("p3")

\* ---- Phase 4: process_resume_tailoring ----

\* what the engine can return to Phase 4: the final status, and whether the
\* invocation wrote the HTML file
EngineResults ==
  {[status |-> Plain(st), wrote |-> TRUE] : st \in {SUCCESS, NEEDS_EDIT}}
  \cup {[status |-> Status(FAILED_TAILORING, m, k), wrote |-> k > 1] : m \in {"API Err Att.", "Missing Keys Att."}, k \in 1..max_tailoring_attempts}
  \cup {[status |-> Status(FAILED_FILE_ACCESS, "HTML Save Err Att.", k), wrote |-> k > 1] : k \in 1..max_tailoring_attempts}
  \cup {[status |-> Status(FAILED_PDF_GEN, m, k), wrote |-> TRUE] : m \in {"Att.", "Validation Err Att."}, k \in 1..max_tailoring_attempts}
  \cup {[status |-> Status(FAILED_PDF_GEN, "Final Edit", 0), wrote |-> TRUE], [status |-> Status(FAILED_TAILORING, "Final Edit Err", 0), wrote |-> TRUE]}

\* what made an engine invocation fail, where the claims tell causes apart:
\* the Oracle client's invalid-API-key error (phase3_ai_analysis.py line
\* 177) behind an "API Err" status, the renderer's missing system library
\* (line 76) behind a PDF generation status
CauseFits(res, cause) ==
  \/ cause = "none"
  \/ cause = "invalid_api_key" /\ res.status.base = FAILED_TAILORING /\ res.status.marker = "API Err Att."
  \/ cause = "missing_render_dependency" /\ res.status.base = FAILED_PDF_GEN /\ res.status.marker \in {"Att.", "Final Edit"}

\* the outcome of the try block around the engine call: a result, or an
\* unexpected exception (line 372)
EngineCalls ==
  {[raised |-> FALSE, res |-> x, cause |-> c] : x \in EngineResults, c \in {"none", "invalid_api_key", "missing_render_dependency"}}
  \cup {[raised |-> TRUE, res |-> [status |-> Plain(UNKNOWN_ERROR), wrote |-> w], cause |-> "none"] : w \in BOOLEAN}

\* P4RetryBases with the Max-Re-Tailoring-Attempts status among the retried ones
P4RetryBasesWithMax ==
  {FAILED_TAILORING, FAILED_HTML_EDIT, FAILED_PDF_GEN, FAILED_FILE_ACCESS, UNKNOWN_ERROR, NEEDS_EDIT, NEEDS_RETAILORING, MAX_RETAILORING}

\* base statuses retried by Phase 4 (lines 325-328, matched by startswith)
P4RetryBases == {FAILED_TAILORING, FAILED_HTML_EDIT, FAILED_PDF_GEN, FAILED_FILE_ACCESS, UNKNOWN_ERROR, NEEDS_EDIT, NEEDS_RETAILORING}

\* line 316: an empty Retailoring Attempts cell is read as 0
ReadAttempts(d) == [r \in DOMAIN d |-> [d[r] EXCEPT !.attempts = AttemptsValue(@)]]

\* ScoreOk with the score mask left out of the selection
ScoreOkUnchecked(row) == TRUE

ScoreOk(row) == row.total >= score_threshold

NeedsRetailor(row) == row.Status = Plain(NEEDS_RETAILORING)

\* AttemptsExceeded with the ceiling never reached
AttemptsExceededOff(row) == FALSE

\* AttemptsExceeded with the ceiling itself still allowed
AttemptsExceededAboveCeiling(row) == row.attempts > max_retailoring_attempts

AttemptsExceeded(row) == row.attempts >= max_retailoring_attempts

\* lines 323-331
Eligible(row, retry) ==
  /\ ScoreOk(row)
  /\ (row.Status = Plain(AI_ANALYZED) \/ (retry /\ row.Status.base \in P4RetryBases))
  /\ ~(NeedsRetailor(row) /\ AttemptsExceeded(row))

\* lines 333-335
Marked(row) ==
  IF NeedsRetailor(row) /\ AttemptsExceeded(row) THEN [row EXCEPT !.Status = Plain(MAX_RETAILORING)]
  ELSE IF row.Status = Plain(AI_ANALYZED) /\ ~ScoreOk(row) THEN [row EXCEPT !.Status = Plain(SKIPPED_LOW_SCORE)]
  ELSE row

\* lines 309-343: read the file, select and mark the rows
P4Begin(from) ==
  /\ run = from
  /\ \E retry \in BOOLEAN, ok \in BOOLEAN :
       LET d == ReadAttempts(store)
           idx == SortedSeq({r \in DOMAIN d : Eligible(d[r], retry)})
           marked == [r \in DOMAIN d |-> Marked(d[r])]
       IN IF idx = <<>>
          THEN /\ store' = IF marked # d /\ ok THEN marked ELSE store
               /\ PassReturns
          ELSE IF ~ok
          THEN UNCHANGED store /\ PassReturns
          ELSE /\ retry_failed' = retry
               /\ df' = marked
               /\ todo' = idx
               /\ run' = "p4"
               /\ processed_in_run' = 0
               /\ UNCHANGED <<store, invocations>>
  /\ UNCHANGED <<disk, apiVars, engineVars, fitVars>>

\* a Phase 4 pass of the workflow, on a store no pass is running over
P4Start == P4Begin("none")

\* the one Phase 4 pass of the single-pass specification
P4Once == P4Begin("start")

\* line 349: a re-tailoring row has its counter incremented before anything
\* else is looked at
Incremented(row) == IF NeedsRetailor(row) THEN [row EXCEPT !.attempts = @ + 1] ELSE row

\* how many Oracle requests an engine invocation with this outcome has
\* issued: one per attempt up to the attempt its status names (line 258),
\* all of them when the ladder was exhausted, any number when it raised
RequestsOf(call) ==
  IF call.raised THEN 0..max_tailoring_attempts
  ELSE IF call.res.status.att > 0 THEN {call.res.status.att}
  ELSE IF call.res.status = Plain(SUCCESS) THEN 1..max_tailoring_attempts
  ELSE {max_tailoring_attempts}

\* line 355: an invocation of the engine for a row: whether job_info makes
\* it a re-tailoring invocation (line 185), the counter the table holds
\* when the engine is entered, the cause of a failure, and the number of
\* Oracle requests it issued
Invocation(r, row, call, n) ==
  [row |-> r, retailoring |-> NeedsRetailor(row), attempts |-> Incremented(row).attempts, cause |-> call.cause, requests |-> n]

\* lines 349-350: the row as the dataframe holds it while it is processed
P4RowEntered(row) == [Incremented(row) EXCEPT !.Status = Plain(TAILORING)]

\* P4RowResult without the handler of line 372 for an exception of the engine
P4RowResultUnhandled(row, call, htmlExists) ==
  IF row.jd.raw < MinJdLen THEN [P4RowEntered(row) EXCEPT !.Status = Plain(MISSING_DATA)]
  ELSE IF call.raised THEN P4RowEntered(row)
  ELSE [P4RowEntered(row) EXCEPT !.Status = call.res.status, !.html = htmlExists]

\* lines 346-372: one row of Phase 4, from the row as line 350 left it
P4RowResult(row, call, htmlExists) ==
  IF row.jd.raw < MinJdLen THEN [P4RowEntered(row) EXCEPT !.Status = Plain(MISSING_DATA)]
  ELSE IF call.raised THEN [P4RowEntered(row) EXCEPT !.Status = Plain(UNKNOWN_ERROR)]
  ELSE [P4RowEntered(row) EXCEPT !.Status = call.res.status, !.html = htmlExists]

P4Row ==
  /\ run = "p4"
  /\ todo # <<>>
  /\ LET r == Head(todo)
         short == df[r].jd.raw < MinJdLen
     IN /\ df[r].attempts < AttemptsCap
        /\ \E call \in EngineCalls, save \in SaveOutcomes, n \in 0..max_tailoring_attempts :
             /\ CauseFits(call.res, call.cause)
             /\ n \in RequestsOf(call)
             /\ (short => n = 0 /\ call = CHOOSE c \in EngineCalls : c.raised /\ ~c.res.wrote)
             /\ disk' = [disk EXCEPT ![r] = @ \/ (~short /\ call.res.wrote)]
             /\ FinishRow([df EXCEPT ![r] = P4RowResult(df[r], call, disk'[r])], save_interval, short, save,
                          IF short THEN invocations ELSE Append(invocations, Invocation(r, df[r], call, n)))
  /\ UNCHANGED <<apiVars, engineVars, fitVars>>

P4End == EndPass("p4")

\* ---- Phase 5: process_rescoring ----

\* statuses_to_process (lines 81-87, 101-103), matched exactly
P5Statuses(retry) ==
  {Plain(SUCCESS), Plain(NEEDS_EDIT)} \cup
  (IF retry THEN {Plain(FAILED_RESCORING), Plain(MISSING_TAILORED_HTML), Plain(SCORE_COMPARISON)} ELSE {})

\* lines 92-110
P5Begin(from) ==
  /\ run = from
  /\ \E retry \in BOOLEAN :
       LET idx == SortedSeq({r \in DOMAIN store : store[r].Status \in P5Statuses(retry)})
       IN IF idx = <<>>
          THEN UNCHANGED store /\ PassReturns
          ELSE /\ retry_failed' = retry
               /\ df' = store
               /\ todo' = idx
               /\ run' = "p5"
               /\ processed_in_run' = 0
               /\ UNCHANGED <<store, invocations>>
  /\ UNCHANGED <<disk, apiVars, engineVars, fitVars>>

\* a Phase 5 pass of the workflow, on a store no pass is running over
P5Start == P5Begin("none")

\* the one Phase 5 pass of the single-pass specification
P5Once == P5Begin("start")

\* variants of Classify that the properties below must tell apart from it:
\* a total equal to the threshold treated as below it
ClassifyAboveThreshold(tailored_total, original_total) ==
  IF tailored_total > score_threshold
  THEN IF tailored_total - original_total > 0 THEN IMPROVED ELSE MAINTAINED
  ELSE NEEDS_RETAILORING

\* a tie with the original total treated as an improvement
ClassifyTieImproves(tailored_total, original_total) ==
  IF tailored_total >= score_threshold
  THEN IF tailored_total - original_total >= 0 THEN IMPROVED ELSE MAINTAINED
  ELSE NEEDS_RETAILORING

\* the improvement measured against the threshold, not the original total
ClassifyAgainstThreshold(tailored_total, original_total) ==
  IF tailored_total >= score_threshold
  THEN IF tailored_total - score_threshold > 0 THEN IMPROVED ELSE MAINTAINED
  ELSE NEEDS_RETAILORING

\* ClassifyAt with the initial value of line 136 kept for a total that
\* reaches the threshold and is lower than the original
ClassifyAtKeepsDeclined(threshold, tailored_total, original_total) ==
  IF tailored_total >= threshold
  THEN IF tailored_total - original_total > 0 THEN IMPROVED
       ELSE IF tailored_total - original_total = 0 THEN MAINTAINED
       ELSE DECLINED
  ELSE NEEDS_RETAILORING

\* lines 136-138: effectiveness_status starts as Declined and is assigned
\* again in both branches of the comparison with the threshold
ClassifyAt(threshold, tailored_total, original_total) ==
  LET effectiveness_status == DECLINED
  IN IF tailored_total >= threshold
     THEN IF tailored_total - original_total > 0 THEN IMPROVED ELSE MAINTAINED
     ELSE NEEDS_RETAILORING

\* lines 137-139: the effectiveness status of a rescored total
Classify(tailored_total, original_total) == ClassifyAt(score_threshold, tailored_total, original_total)

\* Failed5 with the original total cleared along with the rescoring columns
Failed5ClearsTotal(row, status, eff) ==
  [row EXCEPT !.Status = Plain(status), !.tailored = NA, !.total = NA, !.effectiveness = eff]

Failed5(row, status, eff) == [row EXCEPT !.Status = Plain(status), !.tailored = NA, !.effectiveness = eff]

\* the checks of lines 120-128 that skip the row before any Oracle request
P5SkipsTotalUnchecked(row, fileThere, readable) ==
  \/ ~(row.html /\ fileThere)
  \/ row.jd.stripped < MinJdLen
  \/ ~readable

P5Skips(row, fileThere, readable) ==
  \/ ~(row.html /\ fileThere)
  \/ row.jd.stripped < MinJdLen
  \/ row.total = NA
  \/ ~readable

\* line 113: the row as the dataframe holds it while it is processed
P5RowEntered(row) == [row EXCEPT !.Status = Plain(RESCORING)]

\* lines 113-141: one row of Phase 5, from the row as line 113 left it
P5RowResult(row, fileThere, readable, analysis) ==
  LET entered == P5RowEntered(row)
  IN IF ~(row.html /\ fileThere) THEN Failed5(entered, MISSING_TAILORED_HTML, "Error")
     ELSE IF row.jd.stripped < MinJdLen THEN Failed5(entered, MISSING_DATA, "Error")
     ELSE IF row.total = NA THEN Failed5(entered, SCORE_COMPARISON, "Error - Orig Score NA")
     ELSE IF ~readable THEN Failed5(entered, MISSING_TAILORED_HTML, "Error - HTML Read Failed")
     ELSE IF analysis.error THEN Failed5(entered, FAILED_RESCORING, "Error - AI Rescore Failed")
     ELSE LET t == calculate_total_score(analysis.b)
          IN IF t # NA
             THEN [entered EXCEPT !.tailored = t, !.effectiveness = Classify(t, row.total), !.Status = Plain(Classify(t, row.total))]
             ELSE [entered EXCEPT !.tailored = t, !.effectiveness = "Error - Score Calc Failed", !.Status = Plain(SCORE_COMPARISON)]

\* the scorer call of one record of the pass: it makes one Oracle request,
\* or none when it turns its input down before asking
ScorerCall(r, row, n) ==
  [row |-> r, retailoring |-> FALSE, attempts |-> AttemptsValue(row.attempts), cause |-> "rescore", requests |-> n]

P5Row ==
  /\ run = "p5"
  /\ todo # <<>>
  /\ LET r == Head(todo)
     IN \E readable \in BOOLEAN, analysis \in Analyses, save \in SaveOutcomes :
          LET skipped == P5Skips(df[r], disk[r], readable)
          IN /\ (skipped => analysis.error)
             /\ (~(df[r].html /\ disk[r]) \/ df[r].jd.stripped < MinJdLen \/ df[r].total = NA => readable)
             /\ \E n \in 0..1 :
                  /\ (~analysis.error => n = 1)
                  /\ FinishRow([df EXCEPT ![r] = P5RowResult(df[r], disk[r], readable, analysis)], save_interval, skipped, save,
                               IF skipped THEN invocations ELSE Append(invocations, ScorerCall(r, df[r], n)))
  /\ UNCHANGED <<disk, apiVars, engineVars, fitVars>>

P5End == EndPass("p5")

\* ------------------------------------------------------------------------
\* Fit Scorer: analyze_resume_fit_with_gemini, and the total its callers
\* compute from what it returns
\* ------------------------------------------------------------------------

ResumeLens == {0, 99, 100}

JdLens == {0, 49, 50}

FitArgs == [resume : ResumeLens, jd : JdLens]

\* lines 207-208 with the job-description check left out
InvalidInputResumeOnly(args) ==
  IF args.resume < MinResumeLen THEN "Invalid resume text" ELSE ""

\* lines 207-208: the error for a text that is empty or too short, "" if
\* both pass
InvalidInput(args) ==
  IF args.resume < MinResumeLen THEN "Invalid resume text"
  ELSE IF args.jd < MinJdLen THEN "Invalid job description text"
  ELSE ""

\* what group 1 of the score pattern (line 290: digits and dots after the
\* criterion's colon) can hold in a line of the Oracle's text; <<>> stands
\* for a criterion whose line the pattern does not match.  The numbers here
\* are multiples of 0.25, which the quarter-star unit holds exactly.
ScoreLines ==
  { <<>>, <<"0", ".", "2", "5">>, <<"1">>, <<"0">>, <<"3", ".", "5">>, <<".">> }

Digit(c) ==
  CASE c = "0" -> 0 [] c = "1" -> 1 [] c = "2" -> 2 [] c = "3" -> 3 [] c = "4" -> 4
    [] c = "5" -> 5 [] c = "6" -> 6 [] c = "7" -> 7 [] c = "8" -> 8 [] c = "9" -> 9

RECURSIVE Num(_)
Num(ds) == IF ds = <<>> THEN 0 ELSE 10 * Num(SubSeq(ds, 1, Len(ds) - 1)) + Digit(ds[Len(ds)])

RECURSIVE Pow10(_)
Pow10(n) == IF n = 0 THEN 1 ELSE 10 * Pow10(n - 1)

\* float(score_str) raises ValueError unless the string of digits and dots
\* has at most one dot and at least one digit
IsFloat(tok) ==
  /\ Cardinality({i \in 1..Len(tok) : tok[i] = "."}) <= 1
  /\ \E i \in 1..Len(tok) : tok[i] # "."

\* float(score_str), in quarter stars
FloatOf(tok) ==
  LET dots == {i \in 1..Len(tok) : tok[i] = "."}
      dot  == IF dots = {} THEN Len(tok) + 1 ELSE CHOOSE i \in dots : TRUE
      ip   == SubSeq(tok, 1, dot - 1)
      fp   == SubSeq(tok, dot + 1, Len(tok))
  IN 4 * Num(ip) + (4 * Num(fp)) \div Pow10(Len(fp))

\* lines 291-296: the sub-score of one criterion
ParseScore(line) == IF line # <<>> /\ IsFloat(line) THEN FloatOf(line) ELSE NA

\* line 288: criteria 1 to 5 are keyword match, achievements, summary
\* quality, structure, tools and certifications
ParseBreakdown(lines) ==
  Breakdown(ParseScore(lines[1]), ParseScore(lines[2]), ParseScore(lines[3]), ParseScore(lines[4]), ParseScore(lines[5]))

NoLines == [i \in 1..5 |-> <<>>]

\* lines 260-264: the mapping before anything is parsed into it
NoResults == [error |-> "", b |-> Breakdown(NA, NA, NA, NA, NA), full_response |-> NoLines]

\* lines 207-259: the input checks, then the request to the Oracle
FitCall ==
  /\ fit_pc = "idle"
  /\ api_pc = "idle"
  /\ IF InvalidInput(fit_args) # ""
     THEN /\ fit_pc' = "done"
          /\ analysis_results' = [NoResults EXCEPT !.error = InvalidInput(fit_args)]
          /\ UNCHANGED apiVars
     ELSE /\ fit_pc' = "called"
          /\ caller' = "analyze"
          /\ is_json_output' = CallerJson("analyze")
          /\ api_attempt' = 1
          /\ api_pc' = "call"
          /\ api_log' = <<>>
          /\ requests' = requests + 1
          /\ UNCHANGED <<gemini_response, analysis_results>>
  /\ UNCHANGED <<fit_args, fit_total, engineVars, storeVars>>

\* lines 265-320: an error text from the client becomes the error of the
\* result; any other text is parsed, its breakdown lines being whatever the
\* Oracle wrote
FitParse ==
  /\ fit_pc = "called"
  /\ api_pc = "ret"
  /\ \E lines \in [1..5 -> ScoreLines] :
       IF gemini_response.err # ""
       THEN /\ lines = NoLines
            /\ analysis_results' = [NoResults EXCEPT !.error = gemini_response.err]
       ELSE analysis_results' = [error |-> "", b |-> ParseBreakdown(lines), full_response |-> lines]
  /\ fit_pc' = "done"
  /\ api_pc' = "idle"
  /\ UNCHANGED <<is_json_output, api_attempt, api_log, gemini_response, caller, requests>>
  /\ UNCHANGED <<fit_args, fit_total, engineVars, storeVars>>

\* the caller's total: lines 415-417 of process_ai_analysis (none after a
\* failed analysis, line 401) or calculate_total_score in process_rescoring
\* (line 133; none after a failed analysis, lines 71 and 130)
FitTotal ==
  /\ fit_pc = "done"
  /\ fit_pc' = "summed"
  /\ \E phase \in {"p3", "p5"} :
       fit_total' = [by |-> phase,
                     value |-> IF analysis_results.error # "" THEN NA
                               ELSE IF phase = "p3" THEN Phase3Total(analysis_results.b)
                               ELSE calculate_total_score(analysis_results.b)]
  /\ UNCHANGED <<fit_args, analysis_results, apiVars, engineVars, storeVars>>

FitInit(args) ==
  /\ fit_pc = "idle"
  /\ fit_args \in args
  /\ analysis_results = NoResults
  /\ fit_total = [by |-> "none", value |-> NA]

\* the Fit Scorer while another component is looked at on its own
FitIdle == FitInit({[resume |-> 0, jd |-> 0]})

\* the store while the engine or the client is looked at on its own
StoreIdle ==
  /\ store = [r \in Rows |-> InitialRow([raw |-> 60, stripped |-> 60])]
  /\ disk = [r \in Rows |-> FALSE]
  /\ df = store
  /\ run = "none"
  /\ todo = <<>>
  /\ processed_in_run = 0
  /\ retry_failed = FALSE
  /\ invocations = <<>>

\* the store after Phase 2: every row is ready for the AI analysis and has
\* never been tailored
StoreInit ==
  /\ store \in [Rows -> {InitialRow(jd) : jd \in JDs}]
  /\ disk = [r \in Rows |-> FALSE]
  /\ df = store
  /\ run = "none"
  /\ todo = <<>>
  /\ processed_in_run = 0
  /\ retry_failed = FALSE
  /\ invocations = <<>>

InitStore == ApiInit /\ StoreInit /\ FitIdle

\* ---- a single Phase 4 pass over a store the earlier passes have left ----

GoodJd == [raw |-> 60, stripped |-> 60]

StoredRow(status, attempts, total, html, tailored, effectiveness) ==
  [Status |-> status, attempts |-> attempts, total |-> total, jd |-> GoodJd,
   html |-> html, tailored |-> tailored, effectiveness |-> effectiveness]

\* rows as Phase 3, Phase 4 and Phase 5 leave them in the spreadsheet:
\* analysed and never tailored (above and below the threshold), left in
\* Needs-Re-Tailoring by Phase 5 (never re-tailored, re-tailored once, at the
\* ceiling), failed in a re-tailoring invocation, tailored and not yet
\* rescored, rescored as improved
RowsBeforePhase4 ==
  { StoredRow(Plain(AI_ANALYZED), NA, 12, FALSE, NA, ""),
    StoredRow(Plain(AI_ANALYZED), NA, 8, FALSE, NA, ""),
    StoredRow(Plain(NEEDS_RETAILORING), 0, 10, TRUE, 8, NEEDS_RETAILORING),
    StoredRow(Plain(NEEDS_RETAILORING), 1, 12, TRUE, 8, NEEDS_RETAILORING),
    StoredRow(Plain(NEEDS_RETAILORING), max_retailoring_attempts, 10, TRUE, 8, NEEDS_RETAILORING),
    StoredRow(Status(FAILED_PDF_GEN, "Att.", 2), 1, 10, TRUE, 8, NEEDS_RETAILORING),
    StoredRow(Plain(NEEDS_EDIT), 0, 12, TRUE, NA, ""),
    StoredRow(Plain(IMPROVED), 1, 10, TRUE, 12, IMPROVED) }

\* the store when a pass of the single-pass specifications is about to run
PassInit(rows) ==
  /\ store \in [1..PassRows -> rows]
  /\ disk = [r \in 1..PassRows |-> store[r].html]
  /\ df = store
  /\ run = "start"
  /\ todo = <<>>
  /\ processed_in_run = 0
  /\ retry_failed = FALSE
  /\ invocations = <<>>

InitP4 == ApiInit /\ PassInit(RowsBeforePhase4) /\ FitIdle

NextP4 ==
  \/ P4Once
  \/ P4Row
  \/ P4End

SpecP4 == InitP4 /\ [][NextP4]_vars

\* ---- a single Phase 5 pass over a store Phase 4 has left ----

\* rows as Phase 4 leaves them: tailored to one page or needing a manual
\* edit and not yet rescored, and re-tailored after a rescoring below the
\* threshold. score_threshold is a setting of the run (line 88), so a row
\* tailored by a run with a lower threshold has an original total below it.
RowsBeforePhase5 ==
  {StoredRow(Plain(SUCCESS), 0, total, TRUE, NA, "") : total \in {6, 8, 10, 12}} \cup
  { StoredRow(Plain(NEEDS_EDIT), 0, 12, TRUE, NA, ""),
    StoredRow(Plain(SUCCESS), 1, 10, TRUE, 8, NEEDS_RETAILORING) }

InitP5 == ApiInit /\ PassInit(RowsBeforePhase5) /\ FitIdle

NextP5 ==
  \/ P5Once
  \/ P5Row
  \/ P5End

SpecP5 == InitP5 /\ [][NextP5]_vars

\* records as Phase 5 can find them when the sheet or the output folder was
\* touched between the phases: a description that is short once stripped,
\* an original total that does not read as a number, an artifact that is
\* no longer on disk
RowsWithRescoreFaults ==
  { StoredRow(Plain(SUCCESS), 0, 10, TRUE, NA, ""),
    [StoredRow(Plain(SUCCESS), 0, 10, TRUE, NA, "") EXCEPT !.jd = [raw |-> 52, stripped |-> 40]],
    StoredRow(Plain(NEEDS_EDIT), 0, NA, TRUE, NA, ""),
    StoredRow(Plain(SUCCESS), 1, 10, TRUE, 8, NEEDS_RETAILORING) }

InitP5Faults ==
  /\ ApiInit
  /\ FitIdle
  /\ store \in [1..PassRows -> RowsWithRescoreFaults]
  /\ disk \in [1..PassRows -> BOOLEAN]
  /\ df = store
  /\ run = "start"
  /\ todo = <<>>
  /\ processed_in_run = 0
  /\ retry_failed = FALSE
  /\ invocations = <<>>

SpecP5Faults == InitP5Faults /\ [][NextP5]_vars

NextStore ==
  \/ P3Start
  \/ P3Row
  \/ P3End
  \/ P4Start
  \/ P4Row
  \/ P4End
  \/ P5Start
  \/ P5Row
  \/ P5End

SpecStore == InitStore /\ [][NextStore]_vars

Next ==
  \/ StartAttempt
  \/ ApiTry
  \/ Validate
  \/ EditAndWrite
  \/ Render
  \/ Measure
  \/ PostLoop
  \/ FallbackEdit
  \/ FallbackRender
  \/ FallbackMeasure

Init == EngineInit /\ StoreIdle /\ FitIdle

Spec == Init /\ [][Next]_vars

NextApi ==
  \/ ApiRequest
  \/ ApiTry
  \/ ApiDone

InitApi == ApiInit /\ StoreIdle /\ FitIdle

SpecApi == InitApi /\ [][NextApi]_vars

NextFit ==
  \/ FitCall
  \/ ApiTry
  \/ FitParse
  \/ FitTotal

InitFit == ApiInit /\ StoreIdle /\ FitInit(FitArgs)

SpecFit == InitFit /\ [][NextFit]_vars

\* ------------------------------------------------------------------------
\* Properties of the Tailoring Engine and the Oracle client
\* ------------------------------------------------------------------------

Indices(ev) == {i \in 1..Len(trace) : trace[i].ev = ev}

CountEv(ev) == Cardinality(Indices(ev))

\* an Oracle result that is an error marker, not a mapping, or a mapping
\* without one of the four required keys
FailedResult(val) == val.type # "dict" \/ "error" \in val.keys \/ ~(required_keys \subseteq val.keys)

Halted == pc \in {"post", "done"} /\ api_pc = "idle"

\* C1: an Oracle request that returns an error marker or a mapping missing a
\* required key is the last external call of the invocation (no render in
\* that attempt, no later request, render or fallback edit), and when it is
\* the request of attempt 1 the invocation has issued exactly one request.
C1_OracleFailureHalts ==
  \A i \in Indices("oracle") :
    FailedResult(trace[i].val) =>
      /\ i = Len(trace)
      /\ Halted
      /\ (trace[i].att = 1 => CountEv("oracle") = 1 /\ i = 1)

C1_Witness ==
  /\ pc = "done"
  /\ Len(trace) = 1
  /\ trace[1].ev = "oracle"
  /\ trace[1].att = 1
  /\ trace[1].val.type = "dict"
  /\ trace[1].val.keys = required_keys \ {"skill_categories"}

\* C2: a page count of exactly 1 is the last external call of the
\* invocation; when it is attempt 1 that measures 1 page the engine returns
\* Success after exactly one Oracle request and exactly one render.
C2_OnePageStops ==
  \A i \in Indices("measure") :
    trace[i].n = 1 =>
      /\ i = Len(trace)
      /\ Halted
      /\ final_status = Plain(SUCCESS)
      /\ (trace[i].att = 1 => CountEv("oracle") = 1 /\ CountEv("render") = 1)

C2_Witness ==
  /\ pc = "done"
  /\ final_status = Plain(SUCCESS)
  /\ CountEv("oracle") = 1
  /\ CountEv("render") = 1
  /\ trace[Len(trace)] = Event("measure", 1, TRUE, 1, NoVal)

\* every attempt of the ladder produced a valid edit and measured more
\* than one page
LadderExhausted ==
  \A k \in 1..max_tailoring_attempts :
    /\ \E i \in Indices("oracle") : trace[i].att = k /\ ~FailedResult(trace[i].val)
    /\ \E i \in Indices("measure") : trace[i].att = k /\ trace[i].n > 1

FallbackMeasures == {i \in Indices("measure") : trace[i].att = FinalEdit}

\* C3: when every attempt produced a valid edit and measured more than one
\* page, the post-loop fallback has run exactly once when the engine
\* returns, with at most one re-render; the returned status is Success if
\* the re-render measured 1 page and Needs-Manual-Edit if it measured more.
C3_FallbackOnce ==
  (pc = "done" /\ LadderExhausted) =>
    /\ CountEv("fallback_edit") = 1
    /\ Cardinality({i \in Indices("render") : trace[i].att = FinalEdit}) <= 1
    /\ \A i \in FallbackMeasures :
         /\ (trace[i].n = 1 => final_status = Plain(SUCCESS))
         /\ (trace[i].n > 1 => final_status = Plain(NEEDS_EDIT))

C3_Witness ==
  /\ pc = "done"
  /\ LadderExhausted
  /\ CountEv("fallback_edit") = 1
  /\ \E i \in FallbackMeasures : trace[i].n > 1
  /\ final_status = Plain(NEEDS_EDIT)

\* C4: the post-loop fallback edit directly follows the page count of the
\* last attempt of the ladder, which was above 1, after every attempt
\* produced a valid edit; no Oracle request is issued from then on.
C4_FallbackOnlyWhenExhausted ==
  \A i \in Indices("fallback_edit") :
    /\ i > 1
    /\ trace[i - 1].ev = "measure"
    /\ trace[i - 1].att = max_tailoring_attempts
    /\ trace[i - 1].n > 1
    /\ LadderExhausted
    /\ CountEv("oracle") = max_tailoring_attempts
    /\ \A j \in Indices("oracle") : j < i
    /\ api_pc = "idle"

C4_Witness ==
  /\ pc = "done"
  /\ CountEv("fallback_edit") = 1
  /\ \E i \in FallbackMeasures : trace[i].n = 1
  /\ final_status = Plain(SUCCESS)

\* the edit names a target section and no employer heading contains it
NoHeadingMatches(doc, e) ==
  /\ Strip(e.relevant_experience_title) # <<>>
  /\ MatchingH3(doc, Strip(e.relevant_experience_title)) = 0

\* C5 (as claimed): an edit whose target section matches no employer
\* heading, or that changed no section at all, is the last step of the
\* invocation: nothing is written or rendered after it, and the engine
\* returns a failure status.
C5_StructuralMismatchHalts ==
  \A i \in Indices("edit") :
    (NoHeadingMatches(base_html_content, trace[i].val.edit) \/ ~trace[i].ok) =>
      /\ i = Len(trace)
      /\ final_status.base \notin {SUCCESS, NEEDS_EDIT}

\* C6: a failed HTML write, a failed PDF generation or a non-positive page
\* count at attempt k is the last external call of the invocation and
\* leaves a Failed-File-Access (write) or Failed-PDF-Generation status that
\* carries the attempt number k.
C6_RenderFailureHalts ==
  \A i \in 1..Len(trace) :
    LET e == trace[i]
        writeFailed == e.ev = "write" /\ ~e.ok
        renderFailed == e.ev = "render" /\ ~e.ok
        badCount == e.ev = "measure" /\ e.n <= 0
    IN (e.att <= max_tailoring_attempts /\ (writeFailed \/ renderFailed \/ badCount)) =>
         /\ i = Len(trace)
         /\ Halted
         /\ final_status.att = e.att
         /\ final_status.marker # ""
         /\ final_status.base = IF writeFailed THEN FAILED_FILE_ACCESS ELSE FAILED_PDF_GEN

C6_Witness ==
  /\ pc = "done"
  /\ trace[Len(trace)] = Event("measure", 2, TRUE, 0, NoVal)
  /\ final_status = Status(FAILED_PDF_GEN, "Validation Err Att.", 2)

ValidOracles == {i \in Indices("oracle") : ~FailedResult(trace[i].val)}

\* C7 (as claimed): the structured edit the engine returns is the most
\* recent Oracle result of the invocation that passed validation, and an
\* error marker only if no attempt produced a valid edit.
C7_ReturnsLastValidEdit ==
  pc = "done" =>
    IF ValidOracles = {}
    THEN "error" \in latest_ai_json_data.keys
    ELSE latest_ai_json_data = trace[CHOOSE i \in ValidOracles : \A j \in ValidOracles : j <= i].val

\* C8 (as claimed): a request is given up on a rate-limit/server-busy
\* failure only after 3 model calls of that request failed that way.
C8_ThreeTriesPerRequest ==
  (api_pc = "ret" /\ api_log[Len(api_log)] = BusyOutcome) => Len(api_log) = api_max_attempts

\* the value a failed request hands to its caller: a mapping with an
\* "error" key in JSON mode, an error text in text mode
IsFailureValue(val, json) ==
  IF json THEN val.type = "dict" /\ "error" \in val.keys /\ val.err # ""
  ELSE val.type = "str" /\ val.err # ""

\* C9: a model call that fails in any way other than rate-limit/server-busy
\* is the last model call of its request (it is not retried), the request
\* returns a failure value, and when it is the first call of the request
\* the request made exactly one model call.
C9_OtherFailuresNotRetried ==
  \A i \in 1..Len(api_log) :
    api_log[i] \in FailureOutcomes \ {BusyOutcome} =>
      /\ i = Len(api_log)
      /\ api_pc # "call"
      /\ IsFailureValue(gemini_response, is_json_output)

C9_Witness ==
  /\ api_pc = "ret"
  /\ api_log = <<"blocked">>
  /\ ~is_json_output
  /\ gemini_response = Text("ERROR: Prompt blocked")

\* ------------------------------------------------------------------------
\* Properties of the passes over the store
\* ------------------------------------------------------------------------

\* C10: no step of a Phase 3, Phase 4 or Phase 5 pass lowers the
\* Retailoring Attempts value of a record, neither in the stored
\* spreadsheet nor in the table a running pass works on (an empty cell
\* counts as 0, as Phase 4 reads it).
C10_AttemptsNeverDecrease ==
  [][\A r \in Rows :
       /\ AttemptsValue(store'[r].attempts) >= AttemptsValue(store[r].attempts)
       /\ (run' # "none" => AttemptsValue(df'[r].attempts) >= AttemptsValue(df[r].attempts))]_vars

C10_Witness ==
  \E r \in Rows :
    /\ run = "none"
    /\ store[r].attempts = max_retailoring_attempts
    /\ store[r].Status = Plain(MAX_RETAILORING)

\* a record in Needs-Re-Tailoring whose counter has reached the ceiling
AtCeiling(row) ==
  /\ row.Status = Plain(NEEDS_RETAILORING)
  /\ AttemptsValue(row.attempts) >= max_retailoring_attempts

\* totals a record can carry: absent, or 0 to 4 stars in quarters
Totals == {NA} \cup 0..16

\* C11: a record that is in Needs-Re-Tailoring with its counter at the
\* ceiling when a Phase 4 pass starts is not selected, whatever the retry
\* flag and its score; the table of the pass holds it in the
\* Max-Re-Tailoring-Attempts status, every write of that table to the
\* spreadsheet carries that status, and no row the pass hands to the engine
\* is such a record.
C11_CeilingNotRetailored ==
  [][/\ \A total \in Totals, a \in max_retailoring_attempts..AttemptsCap, retry \in BOOLEAN :
          LET row == StoredRow(Plain(NEEDS_RETAILORING), a, total, TRUE, 8, NEEDS_RETAILORING)
          IN ~Eligible(row, retry) /\ Marked(row).Status = Plain(MAX_RETAILORING)
     /\ \A r \in DOMAIN store :
          AtCeiling(store[r]) =>
            /\ (run = "start" /\ run' = "p4" =>
                  /\ df'[r].Status = Plain(MAX_RETAILORING)
                  /\ \A i \in 1..Len(todo') : todo'[i] # r)
            /\ (store' # store => store'[r].Status = Plain(MAX_RETAILORING))
     /\ (Len(invocations') > Len(invocations) => ~AtCeiling(df[Head(todo)]))]_vars

C11_Witness ==
  \E r \in DOMAIN store :
    /\ run = "p4"
    /\ AtCeiling(store[r])
    /\ df[r].Status = Plain(MAX_RETAILORING)
    /\ invocations # <<>>

\* a record Phase 5 left in Needs-Re-Tailoring with its counter below the
\* ceiling
BelowCeiling(row) ==
  /\ row.Status = Plain(NEEDS_RETAILORING)
  /\ AttemptsValue(row.attempts) < max_retailoring_attempts

\* the pass has handed row r to the engine as a re-tailoring invocation,
\* with the counter one above the stored one
Retailored(r) ==
  \E i \in 1..Len(invocations) :
    /\ invocations[i].row = r
    /\ invocations[i].retailoring
    /\ invocations[i].attempts = AttemptsValue(store[r].attempts) + 1

\* C12 (as claimed): while the row loop of a Phase 4 pass runs, every
\* record that is in Needs-Re-Tailoring below the ceiling is either still to
\* be processed or has been handed to the engine as a re-tailoring
\* invocation with its counter incremented by exactly 1.
C12_NeedsRetailoringReenters ==
  run = "p4" =>
    \A r \in DOMAIN store :
      BelowCeiling(store[r]) => (\E i \in 1..Len(todo) : todo[i] = r) \/ Retailored(r)

\* C13: for a rescored total and an original total that are both numeric,
\* Phase 5 classifies the record as Needs-Re-Tailoring if and only if the
\* rescored total is strictly below score_threshold, whether it is above,
\* equal to or below the original total: as a fact about the
\* classification for every pair of totals, and on every row a Phase 5
\* pass rescores.
C13_BelowThresholdIffNeedsRetailoring ==
  [][/\ \A t \in 0..16, o \in 0..16 :
          (Classify(t, o) = NEEDS_RETAILORING) <=> (t < score_threshold)
     /\ (run = "p5" /\ run' = "p5" /\ Len(todo') < Len(todo) =>
          LET new == df'[Head(todo)]
          IN new.tailored # NA =>
               /\ new.total # NA
               /\ (new.effectiveness = NEEDS_RETAILORING) <=> (new.tailored < score_threshold)
               /\ (new.Status = Plain(NEEDS_RETAILORING)) <=> (new.tailored < score_threshold))]_vars

\* a row rescored below the threshold and above its original total is in
\* Needs-Re-Tailoring, next to a row rescored at the threshold that is not
C13_Witness ==
  /\ run = "p5"
  /\ \E r \in DOMAIN df :
       /\ df[r].tailored # NA /\ df[r].tailored < score_threshold /\ df[r].tailored > df[r].total
       /\ df[r].Status = Plain(NEEDS_RETAILORING)
  /\ \E r \in DOMAIN df :
       /\ df[r].tailored = score_threshold /\ df[r].tailored < df[r].total
       /\ df[r].Status = Plain(MAINTAINED)

\* C14: a rescored total at or above score_threshold is classified as
\* Improved if it is strictly greater than the original total and as
\* Maintained otherwise (equal to or lower than the original): for every
\* pair of totals, and on every row a Phase 5 pass rescores.
C14_ImprovedOrMaintained ==
  [][/\ \A t \in score_threshold..16, o \in 0..16 :
          Classify(t, o) = (IF t > o THEN IMPROVED ELSE MAINTAINED)
     /\ (run = "p5" /\ run' = "p5" /\ Len(todo') < Len(todo) =>
          LET new == df'[Head(todo)]
          IN new.tailored # NA /\ new.tailored >= score_threshold =>
               /\ new.effectiveness = (IF new.tailored > new.total THEN IMPROVED ELSE MAINTAINED)
               /\ new.Status = Plain(new.effectiveness))]_vars

\* one row rescored above its original total and one rescored equal to it,
\* both at or above the threshold
C14_Witness ==
  /\ run = "p5"
  /\ \E r \in DOMAIN df :
       /\ df[r].tailored >= score_threshold /\ df[r].tailored > df[r].total
       /\ df[r].total # NA /\ df[r].Status = Plain(IMPROVED)
  /\ \E r \in DOMAIN df :
       /\ df[r].tailored >= score_threshold /\ df[r].tailored = df[r].total
       /\ df[r].Status = Plain(MAINTAINED)

\* C15 (amended): with original total 2.0 and threshold 2.5, a rescored
\* total of 3.0 is classified Improved, one of exactly 2.5 is classified
\* Improved as well (2.5 is above the original 2.0), and one of 2.0 is
\* classified Needs-Re-Tailoring; a rescored total of 2.5 is Maintained
\* when the original total is 2.5 too.
C15_ExampleAsCoded ==
  [][/\ score_threshold = 10
     /\ Classify(12, 8) = IMPROVED
     /\ Classify(10, 8) = IMPROVED
     /\ Classify(8, 8) = NEEDS_RETAILORING
     /\ Classify(10, 10) = MAINTAINED
     /\ (run = "p5" /\ run' = "p5" /\ Len(todo') < Len(todo) =>
          LET new == df'[Head(todo)]
          IN /\ (new.total = 8 /\ new.tailored = 12 => new.Status = Plain(IMPROVED))
             /\ (new.total = 8 /\ new.tailored = 10 => new.Status = Plain(IMPROVED))
             /\ (new.total = 8 /\ new.tailored = 8 => new.Status = Plain(NEEDS_RETAILORING))
             /\ (new.total = 10 /\ new.tailored = 10 => new.Status = Plain(MAINTAINED)))]_vars

\* a row with original total 2.0 rescored to exactly 2.5
C15_Witness ==
  \E r \in DOMAIN df :
    /\ run = "p5"
    /\ df[r].total = 8 /\ df[r].tailored = 10
    /\ df[r].effectiveness = IMPROVED

\* C15 (as claimed): with original total 2.0 and threshold 2.5, a rescored
\* total of 3.0 is classified Improved, one of exactly 2.5 Maintained, and
\* one of 2.0 Needs-Re-Tailoring.
C15_ExampleAsClaimed ==
  [][run = "p5" /\ run' = "p5" /\ Len(todo') < Len(todo) =>
       LET new == df'[Head(todo)]
       IN /\ (new.total = 8 /\ new.tailored = 12 => new.Status = Plain(IMPROVED))
          /\ (new.total = 8 /\ new.tailored = 10 => new.Status = Plain(MAINTAINED))
          /\ (new.total = 8 /\ new.tailored = 8 => new.Status = Plain(NEEDS_RETAILORING))]_vars

Present(x) == IF x = NA THEN 0 ELSE x

\* C16: the total a caller computes from a score breakdown is the sum of
\* the keyword, achievements, summary-quality and tools/certifications
\* sub-scores that are present; it does not depend on the structure
\* sub-score; it is absent exactly when all four are absent; and Phase 3
\* and Phase 5 compute the same total for the same breakdown.
C16_TotalIsSumOfFour ==
  fit_pc = "summed" /\ analysis_results.error = "" =>
    LET b == analysis_results.b
        present == {f \in {"kw", "ach", "summ", "tools"} : b[f] # NA}
    IN /\ fit_total.value =
            (IF present = {} THEN NA
             ELSE Present(b.kw) + Present(b.ach) + Present(b.summ) + Present(b.tools))
       /\ (fit_total.value = NA) <=> (present = {})
       /\ Phase3Total(b) = calculate_total_score(b)
       /\ \A s \in {NA} \cup 0..16 :
            /\ Phase3Total([b EXCEPT !.struct = s]) = fit_total.value
            /\ calculate_total_score([b EXCEPT !.struct = s]) = fit_total.value

\* totals of a breakdown with a structure score, an absent sub-score and
\* two equal sub-scores, computed by Phase 5
C16_Witness ==
  /\ fit_pc = "summed"
  /\ fit_total.by = "p5"
  /\ analysis_results.error = ""
  /\ analysis_results.b.struct = 4
  /\ analysis_results.b.ach = NA
  /\ analysis_results.b.kw = 1 /\ analysis_results.b.summ = 1 /\ analysis_results.b.tools = 4
  /\ fit_total.value = 6

\* C17 (as claimed): whatever the Oracle's text is, each of the five
\* sub-scores the Fit Scorer returns is absent or a value within
\* [0.25, 1.0] (1 to 4 quarter stars).
C17_SubScoresInRange ==
  \A f \in {"kw", "ach", "summ", "struct", "tools"} :
    analysis_results.b[f] = NA \/ (1 <= analysis_results.b[f] /\ analysis_results.b[f] <= 4)

\* C18: given a job description that is empty or shorter than 50
\* characters, the Fit Scorer returns an invalid-input error and makes no
\* request to the Oracle.
C18_ShortJdNoOracleCall ==
  fit_pc # "idle" /\ fit_args.jd < MinJdLen =>
    /\ fit_pc \in {"done", "summed"}
    /\ analysis_results.error \in {"Invalid resume text", "Invalid job description text"}
    /\ analysis_results.b = Breakdown(NA, NA, NA, NA, NA)
    /\ requests = 0
    /\ api_pc = "idle"
    /\ api_log = <<>>

\* the Fit Scorer has returned for a valid resume and a job description of
\* 49 characters
C18_Witness ==
  /\ fit_pc = "done"
  /\ fit_args.resume >= MinResumeLen
  /\ fit_args.jd = MinJdLen - 1
  /\ analysis_results.error = "Invalid job description text"
  /\ requests = 0

\* an edit that only supplies skill categories
SkillsOnly(e) ==
  /\ e.tailored_summary = ""
  /\ e.relevant_experience_title = <<>>
  /\ e.tailored_bullets = <<>>
  /\ e.skill_categories # <<>>

\* the summary section and the experience bullet lists of a document as
\* they stand in its text: their content in the layout of the file
SummaryAndBullets(doc) ==
  [summary |-> doc.summary, bullets |-> [i \in 1..Len(doc.exps) |-> doc.exps[i].bullets], pretty |-> doc.pretty]

\* C19 (as claimed): applying an edit that only supplies skill categories
\* leaves the summary and every experience bullet list identical to the
\* pre-edit document.
C19_SkillsOnlyEditKeepsRest ==
  [][pc = "edit" /\ pc' # "edit" /\ SkillsOnly(latest_ai_json_data.edit) =>
       SummaryAndBullets(edited'.doc) = SummaryAndBullets(base_html_content)]_vars

\* C20 (as claimed): an invalid-API-key error of the Oracle, or a PDF
\* rendering failure caused by a missing system library, aborts the whole
\* Phase 4 run: no record after the one that hit the error is passed to
\* the Tailoring Engine in that run.
C20_FatalErrorsAbortRun ==
  \A i \in 1..Len(invocations) :
    invocations[i].cause \in {"invalid_api_key", "missing_render_dependency"} => i = Len(invocations)

\* the Oracle requests and fixed delays of an engine invocation that issued
\* n requests: line 276 sleeps at the end of an attempt only when another
\* attempt follows
RECURSIVE Timeline(_)
Timeline(n) ==
  IF n = 0 THEN <<>>
  ELSE IF n = 1 THEN <<"request">>
  ELSE Timeline(n - 1) \o <<"sleep", "request">>

\* the requests and delays of a Phase 4 pass: the row loop (lines 345-377)
\* adds none of its own between two invocations
RECURSIVE PassTimeline(_)
PassTimeline(invs) ==
  IF invs = <<>> THEN <<>> ELSE Timeline(Head(invs).requests) \o PassTimeline(Tail(invs))

\* C21 (as claimed): between any two consecutive Oracle requests of a run,
\* between attempts of one record and between the last request of one
\* record and the first request of the next, the fixed delay is inserted.
C21_DelayBetweenRequests ==
  LET t == PassTimeline(invocations)
  IN \A i \in 1..(Len(t) - 1) : t[i] = "request" => t[i + 1] = "sleep"

\* lines 356-357 of process_resume_tailoring, applied to what the engine
\* left: the HTML path is recorded if a file is at the path, the PDF path
\* if a file is at the path and the status is not the bare PDF-generation
\* status, the page count if it is not negative
HtmlPathRecorded == html_file.exists

PdfPathRecorded == pdf_file.exists /\ final_status # Plain(FAILED_PDF_GEN)

PagesRecorded == page_count >= 0

\* the attempt the invocation ran last; a post-loop edit that removed
\* nothing or raised wrote no file and is no attempt of its own
LastAttempt ==
  LET last == trace[Len(trace)]
  IN IF last.ev = "fallback_edit" /\ ~last.ok THEN max_tailoring_attempts ELSE last.att

\* C22 (as claimed): when the engine has returned, a recorded HTML path
\* and a recorded PDF path name files written by the last attempt of this
\* invocation (the PDF rendered from that HTML), and a recorded page count
\* was measured in that attempt.
C22_RecordedArtifactsAreLatest ==
  pc = "done" =>
    /\ (HtmlPathRecorded => html_file.by = LastAttempt)
    /\ (PdfPathRecorded => pdf_file.by = LastAttempt /\ pdf_file.doc = html_file.doc)
    /\ (PagesRecorded => \E i \in Indices("measure") : trace[i].att = LastAttempt /\ trace[i].n = page_count)

\* ------------------------------------------------------------------------
\* C23: the statuses the engine returns
\* ------------------------------------------------------------------------

\* the bases a returned final status is built on (lines 183-295)
ReturnedBases == {SUCCESS, NEEDS_EDIT, FAILED_TAILORING, FAILED_PDF_GEN, FAILED_FILE_ACCESS}

\* dataframe selection of phase5_rescore.py (lines 95-104) picks the status
\* up whether or not failed rescorings are retried
SelectedByPhase5(st) == \A retry \in BOOLEAN : st \in P5Statuses(retry)

\* C23: every final status the engine returns is built on Success,
\* Needs-Manual-Edit, Failed-Tailoring, Failed-PDF-Generation or
\* Failed-File-Access; Success and Needs-Manual-Edit are returned without
\* any marker, so the exact-match selection of Phase 5 picks them up.
C23_ReturnedStatuses ==
  pc = "done" =>
    /\ final_status.base \in ReturnedBases
    /\ (final_status.base \in {SUCCESS, NEEDS_EDIT} =>
          final_status = Plain(final_status.base) /\ SelectedByPhase5(final_status))

\* the engine returned Success from its second attempt
C23_Witness ==
  /\ pc = "done"
  /\ final_status = Plain(SUCCESS)
  /\ attempt = 2
  /\ trace[Len(trace)].ev = "measure"

\* ------------------------------------------------------------------------
\* C24: the status returned after a failed Oracle request
\* ------------------------------------------------------------------------

\* the engine stopped on the value its last Oracle request returned, and
\* that value is an error of the client
HaltedOnApiFailure ==
  /\ pc = "done"
  /\ trace[Len(trace)].ev = "oracle"
  /\ Rejection(trace[Len(trace)].val) = "API Err Att."

\* C24: when the engine halts because the Oracle request of attempt k
\* failed, k being the number of requests the invocation has issued, the
\* status returned is Failed-Tailoring with the API-failure marker and the
\* attempt number k.
C24_ApiFailureTaggedWithAttempt ==
  HaltedOnApiFailure =>
    /\ CountEv("oracle") \in 1..max_tailoring_attempts
    /\ trace[Len(trace)].att = CountEv("oracle")
    /\ final_status = Status(FAILED_TAILORING, "API Err Att.", CountEv("oracle"))

\* the request of the last attempt allowed failed
C24_Witness ==
  /\ HaltedOnApiFailure
  /\ final_status.att = max_tailoring_attempts
  /\ max_tailoring_attempts > 1

\* ------------------------------------------------------------------------
\* C25: the Declined status
\* ------------------------------------------------------------------------

\* C25: Phase 5 never gives a record the Declined status, as Status or as
\* TailoringEffectivenessStatus, whatever the original total, the rescored
\* total and the threshold are.
C25_DeclinedNeverAssigned ==
  /\ \A threshold \in 0..16, t \in 0..16, o \in 0..16 : ClassifyAt(threshold, t, o) # DECLINED
  /\ \A r \in DOMAIN df : df[r].Status.base # DECLINED /\ df[r].effectiveness # DECLINED
  /\ \A r \in DOMAIN store : store[r].Status.base # DECLINED /\ store[r].effectiveness # DECLINED

\* a record rescored at or above the threshold and below its original
\* total, written to the store
C25_Witness ==
  /\ run = "none"
  /\ \E r \in DOMAIN store :
       /\ store[r].tailored # NA /\ store[r].total # NA
       /\ store[r].tailored >= score_threshold
       /\ store[r].tailored < store[r].total
       /\ store[r].Status = Plain(MAINTAINED)

\* ------------------------------------------------------------------------
\* C26: what a later attempt is issued after, and what it condenses
\* ------------------------------------------------------------------------

\* the request of an attempt after the first has been built and issued
LaterAttemptIssued == pc = "oracle" /\ attempt >= 2

\* C26: attempt k+1 is issued only after attempt k's response was accepted
\* as a valid edit and its PDF measured more than 1 page, and the content
\* its prompt asks the Oracle to condense is the edit attempt k returned.
C26_CondensesPreviousAttempt ==
  LaterAttemptIssued =>
    /\ \E i \in Indices("oracle") :
         /\ trace[i].att = attempt - 1
         /\ trace[i].ok
         /\ Rejection(trace[i].val) = ""
         /\ prompt.context = trace[i].val
    /\ \E i \in Indices("measure") : trace[i].att = attempt - 1 /\ trace[i].n > 1
    /\ \A i \in Indices("oracle") : trace[i].att < attempt

\* attempt 3 is issued with attempt 2's edit, which differs from attempt 1's
C26_Witness ==
  /\ LaterAttemptIssued
  /\ attempt = 3
  /\ \E i, j \in Indices("oracle") :
       /\ trace[i].att = 1 /\ trace[j].att = 2
       /\ trace[i].val # trace[j].val
       /\ prompt.context = trace[j].val

\* ------------------------------------------------------------------------
\* C27: every edit is applied to the base
\* ------------------------------------------------------------------------

\* the document the edit of the current attempt gives when applied to the base
BaseWithLatestEdit == edit_html_with_ai_suggestions(base_html_content, latest_ai_json_data.edit).doc

\* C27: every attempt applies its edit to the unmodified base: the HTML
\* written and the PDF rendered at attempt k hold the base with attempt k's
\* edit applied, whatever earlier attempts produced, and no step of the
\* invocation changes the base content.
C27_EditsApplyToBase ==
  [][/\ base_html_content' = base_html_content
     /\ base_html_content \in BaseResumes
     /\ (pc = "edit" /\ html_file' # html_file =>
           html_file' = File(TRUE, BaseWithLatestEdit, attempt))
     /\ (pc = "render" /\ pdf_file' # pdf_file =>
           pdf_file' = File(TRUE, BaseWithLatestEdit, attempt))]_vars

\* attempt 2 rendered, after an attempt 1 whose edit gave another document
\* and with an edit that gives another document when applied on top of it
C27_Witness ==
  /\ pc = "measure"
  /\ attempt = 2
  /\ pdf_file = File(TRUE, BaseWithLatestEdit, 2)
  /\ \E i \in Indices("oracle") :
       /\ trace[i].att = 1
       /\ LET first == edit_html_with_ai_suggestions(base_html_content, trace[i].val.edit).doc
          IN /\ first # pdf_file.doc
             /\ edit_html_with_ai_suggestions(first, latest_ai_json_data.edit).doc # pdf_file.doc

\* ------------------------------------------------------------------------
\* C28: a failure of one record does not stop the Phase 4 pass
\* ------------------------------------------------------------------------

\* the statuses a tailoring failure of a record is stored under
TailoringFailureBases == {FAILED_TAILORING, FAILED_PDF_GEN, FAILED_FILE_ACCESS, UNKNOWN_ERROR}

\* the statuses a row leaves the loop body of Phase 4 with
RowOutcomeBases == TailoringFailureBases \cup {SUCCESS, NEEDS_EDIT, MISSING_DATA}

\* C28: a per-record tailoring failure ends in a named status on that
\* record and does not stop the run.  The rows to process are the rows
\* eligible when the pass starts; each step of the loop gives the first of
\* them one of the outcome statuses and leaves the rest waiting, untouched;
\* the pass returns only when none is left, or on a permission error of a
\* periodic save that is due.
C28_FailureDoesNotStopPass ==
  [][/\ (run = "start" /\ run' = "p4" =>
           \A r \in DOMAIN store :
             Eligible(ReadAttempts(store)[r], retry_failed') <=> \E i \in 1..Len(todo') : todo'[i] = r)
     /\ (run = "p4" /\ todo # <<>> /\ run' = "p4" =>
           /\ todo' = Tail(todo)
           /\ df'[Head(todo)].Status.base \in RowOutcomeBases
           /\ \A i \in 1..Len(todo') : df'[todo'[i]] = df[todo'[i]])
     /\ (run = "p4" /\ run' # "p4" =>
           todo = <<>> \/ Checkpoint(processed_in_run + 1, save_interval, FALSE))]_vars

\* the first row of the pass ended in a tailoring failure and the second,
\* eligible when the pass started, was processed after it
C28_Witness ==
  /\ run = "p4"
  /\ todo = <<>>
  /\ Len(invocations) = 2
  /\ invocations[1].row # invocations[2].row
  /\ df[invocations[1].row].Status.base \in TailoringFailureBases
  /\ df[invocations[2].row].Status = Plain(SUCCESS)
  /\ \A r \in DOMAIN store : Eligible(ReadAttempts(store)[r], retry_failed)

\* ------------------------------------------------------------------------
\* C29: what the periodic and final saves of Phase 4 and Phase 5 write
\* ------------------------------------------------------------------------

\* stored rows with which a pass of either phase can have save_interval
\* rows to process, so that a periodic save comes due
RowsAtCheckpoint ==
  { StoredRow(Plain(AI_ANALYZED), NA, 12, FALSE, NA, ""),
    StoredRow(Plain(SUCCESS), 0, 10, TRUE, NA, ""),
    StoredRow(Plain(NEEDS_EDIT), 0, 12, TRUE, NA, "") }

\* a store of save_interval rows, before one pass of Phase 4 or Phase 5
InitSaves ==
  /\ ApiInit
  /\ FitIdle
  /\ store \in [1..save_interval -> RowsAtCheckpoint]
  /\ disk = [r \in 1..save_interval |-> store[r].html]
  /\ df = store
  /\ run = "start"
  /\ todo = <<>>
  /\ processed_in_run = 0
  /\ retry_failed = FALSE
  /\ invocations = <<>>

NextSaves ==
  \/ P4Once
  \/ P4Row
  \/ P4End
  \/ P5Once
  \/ P5Row
  \/ P5End

SpecSaves == InitSaves /\ [][NextSaves]_vars

\* the statuses a row carries only while its loop body runs
TransientBases == {TAILORING, RESCORING}

\* C29: the store is written only at record boundaries: whatever a periodic
\* save or the final save of Phase 4 or Phase 5 writes, no record in it is
\* in the transient Tailoring or Rescoring status.
C29_NoTransientStatusStored ==
  [][store' # store => \A r \in DOMAIN store' : store'[r].Status.base \notin TransientBases]_vars

\* a periodic save has written the table after save_interval rows, the last
\* of them a row whose engine invocation raised
C29_Witness ==
  /\ run = "p4"
  /\ processed_in_run = save_interval
  /\ store = df
  /\ store[save_interval].Status = Plain(UNKNOWN_ERROR)
  /\ \A r \in DOMAIN store : store[r].Status.base \notin {AI_ANALYZED} \cup TransientBases

\* ------------------------------------------------------------------------
\* C30: the re-tailoring counter stays within its ceiling
\* ------------------------------------------------------------------------

\* a step of the Phase 4 loop that takes a row from Needs-Re-Tailoring into
\* tailoring, the pass going on
RetailoringEdge ==
  run = "p4" /\ run' = "p4" /\ todo # <<>> /\ todo' = Tail(todo) /\ NeedsRetailor(df[Head(todo)])

\* C30: starting from 0, the re-tailoring counter of a record never exceeds
\* max_retailoring_attempts, in the store and in the table of a running
\* pass, over any sequence of passes; each step from Needs-Re-Tailoring
\* into tailoring adds exactly one to the counter, so that step is taken at
\* most max_retailoring_attempts times per record.
C30_AttemptsWithinCeiling ==
  [][/\ \A r \in DOMAIN store' : AttemptsValue(store'[r].attempts) \in 0..max_retailoring_attempts
     /\ \A r \in DOMAIN df' : AttemptsValue(df'[r].attempts) \in 0..max_retailoring_attempts
     /\ (RetailoringEdge =>
           /\ df[Head(todo)].attempts < max_retailoring_attempts
           /\ df'[Head(todo)].attempts = df[Head(todo)].attempts + 1)
     /\ (run = "p4" /\ run' = "p4" /\ todo # <<>> /\ todo' = Tail(todo) /\ ~NeedsRetailor(df[Head(todo)]) =>
           df'[Head(todo)].attempts = df[Head(todo)].attempts)]_vars

\* a record re-tailored for the last time allowed, rescored below the
\* threshold again and stored with its counter at the ceiling
C30_Witness ==
  /\ run = "none"
  /\ \E r \in DOMAIN store :
       /\ store[r].attempts = max_retailoring_attempts
       /\ store[r].Status = Plain(NEEDS_RETAILORING)

\* ------------------------------------------------------------------------
\* C31: the re-tailoring counter and the re-tailoring invocations
\* ------------------------------------------------------------------------

\* a job description below the length line 351 asks for
ShortJd == [raw |-> 10, stripped |-> 10]

\* rows of a spreadsheet in which the description of a Needs-Re-Tailoring
\* record is missing or short when Phase 4 reads it
RowsWithShortJd ==
  { [StoredRow(Plain(NEEDS_RETAILORING), 0, 10, TRUE, 8, NEEDS_RETAILORING) EXCEPT !.jd = ShortJd],
    StoredRow(Plain(NEEDS_RETAILORING), 0, 10, TRUE, 8, NEEDS_RETAILORING),
    StoredRow(Plain(NEEDS_RETAILORING), 1, 12, TRUE, 8, NEEDS_RETAILORING),
    StoredRow(Plain(AI_ANALYZED), NA, 12, FALSE, NA, "") }

InitP4Short == ApiInit /\ PassInit(RowsWithShortJd) /\ FitIdle

SpecP4Short == InitP4Short /\ [][NextP4]_vars

\* the re-tailoring invocations of the engine the running pass has made
\* for a row
RetailoringInvocations(r) ==
  Cardinality({i \in 1..Len(invocations) : invocations[i].row = r /\ invocations[i].retailoring})

Exhausted(r) == store[r].Status = Plain(MAX_RETAILORING)

\* C32: once a record is stored with the Max-Re-Tailoring-Attempts status,
\* no pass of Phase 3, 4 or 5 selects it, whatever the retry flag, so no
\* step changes the record, in the store or in the table of a pass, and
\* none hands it to the engine or the scorer.
C32_MaxRetailoringTerminal ==
  [][/\ \A retry \in BOOLEAN, row \in RowsBeforePhase4 :
          LET ex == [row EXCEPT !.Status = Plain(MAX_RETAILORING)]
          IN /\ ~Eligible(ex, retry) /\ Marked(ex) = ex
             /\ ex.Status \notin P3Statuses(retry) \cup P5Statuses(retry)
     /\ \A r \in DOMAIN store :
          Exhausted(r) =>
            /\ store'[r] = store[r]
            /\ df'[r] = store[r]
            /\ \A i \in 1..Len(todo') : todo'[i] # r
            /\ \A i \in 1..Len(invocations') : invocations'[i].row # r]_vars

\* a record stored as exhausted whose score and tailored file would
\* otherwise let Phase 4 and Phase 5 take it
C32_Witness ==
  \E r \in DOMAIN store :
    /\ Exhausted(r)
    /\ ScoreOk(store[r])
    /\ store[r].html /\ disk[r]
    /\ store[r].effectiveness = NEEDS_RETAILORING

\* ------------------------------------------------------------------------
\* C33, C34: the status and the page count the engine returns together
\* ------------------------------------------------------------------------

\* C33: the engine returns the Success status if and only if the page count
\* it returns is exactly 1.
C33_SuccessIffOnePage ==
  pc = "done" => (final_status.base = SUCCESS <=> page_count = 1)

\* Success returned from the last attempt of the ladder, after two attempts
\* that measured more than one page
C33_Witness ==
  /\ pc = "done"
  /\ final_status = Plain(SUCCESS)
  /\ page_count = 1
  /\ attempt = max_tailoring_attempts
  /\ trace[Len(trace)] = Event("measure", max_tailoring_attempts, TRUE, 1, NoVal)

\* C34: whenever the engine returns the Needs-Manual-Edit status, the page
\* count it returns is greater than 1, also when the status is returned
\* after the post-loop edit.
C34_NeedsEditAboveOnePage ==
  pc = "done" /\ final_status.base = NEEDS_EDIT => page_count > 1

\* ------------------------------------------------------------------------
\* C35: the PDF path of a record whose PDF generation failed
\* ------------------------------------------------------------------------

\* C35: whenever the status Phase 4 records for the engine's result is a
\* PDF-generation failure, with whatever marker, the Tailored PDF Path is
\* left empty, even if a PDF of an earlier attempt or invocation exists.
C35_NoPdfPathOnPdfFailure ==
  pc = "done" /\ final_status.base = FAILED_PDF_GEN => ~PdfPathRecorded

\* ------------------------------------------------------------------------
\* C36: termination and the external calls of one invocation
\* ------------------------------------------------------------------------

\* the engine and the client run sequentially: a step that can be taken is
\* taken, the Oracle and the renderer having returned
SpecTerminates == Init /\ [][Next]_vars /\ WF_vars(Next)

\* C36: every engine invocation terminates, having issued at most
\* max_tailoring_attempts Oracle requests and at most
\* max_tailoring_attempts + 1 renders, whatever the Oracle and the renderer
\* return.
C36_TerminatesWithinBudget ==
  /\ [](CountEv("oracle") <= max_tailoring_attempts /\ CountEv("render") <= max_tailoring_attempts + 1)
  /\ <>(pc = "done")

\* an invocation that returned after using its whole budget: every attempt
\* asked the Oracle and rendered, and the post-loop edit rendered once more
C36_Witness ==
  /\ pc = "done"
  /\ CountEv("oracle") = max_tailoring_attempts
  /\ CountEv("render") = max_tailoring_attempts + 1

\* ------------------------------------------------------------------------
\* C37: the score threshold of Phase 4
\* ------------------------------------------------------------------------

\* a total that is missing or below score_threshold
LowOrMissing(total) == total = NA \/ total < score_threshold

\* statuses a stored record can carry when Phase 4 selects its rows
SelectableStatuses ==
  {Plain(AI_ANALYZED), Plain(NEEDS_EDIT), Plain(NEEDS_RETAILORING), Plain(UNKNOWN_ERROR),
   Status(FAILED_TAILORING, "API Err Att.", 1), Status(FAILED_PDF_GEN, "Att.", 2),
   Status(FAILED_FILE_ACCESS, "HTML Save Err Att.", 1)}

\* C37: Phase 4 never invokes the engine for a record whose total is
\* missing or below score_threshold, whatever its status and the retry
\* flag; an AI-Analyzed record below the threshold gets the
\* Skipped-Low-Score status.
C37_LowScoreNeverTailored ==
  [][/\ \A total \in Totals, st \in SelectableStatuses, a \in 0..max_retailoring_attempts, retry \in BOOLEAN :
          LET row == StoredRow(st, a, total, TRUE, NA, "")
          IN LowOrMissing(total) =>
               /\ ~Eligible(row, retry)
               /\ (st = Plain(AI_ANALYZED) => Marked(row).Status = Plain(SKIPPED_LOW_SCORE))
     /\ (run = "start" /\ run' = "p4" =>
           \A r \in DOMAIN store :
             LowOrMissing(store[r].total) =>
               /\ \A i \in 1..Len(todo') : todo'[i] # r
               /\ (store[r].Status = Plain(AI_ANALYZED) => df'[r].Status = Plain(SKIPPED_LOW_SCORE)))
     /\ (Len(invocations') > Len(invocations) => ~LowOrMissing(df[Head(todo)].total))
     /\ (store' # store =>
           \A r \in DOMAIN store :
             store[r].Status = Plain(AI_ANALYZED) /\ LowOrMissing(store[r].total) =>
               store'[r].Status = Plain(SKIPPED_LOW_SCORE))]_vars

\* a pass that tailored one record and skipped an AI-Analyzed record below
\* the threshold
C37_Witness ==
  /\ run = "p4"
  /\ todo = <<>>
  /\ Len(invocations) = 1
  /\ \E r \in DOMAIN store :
       /\ store[r].Status = Plain(AI_ANALYZED)
       /\ store[r].total # NA /\ store[r].total < score_threshold
       /\ df[r].Status = Plain(SKIPPED_LOW_SCORE)
       /\ invocations[1].row # r

\* ------------------------------------------------------------------------
\* C38: what Phase 5 leaves alone
\* ------------------------------------------------------------------------

\* the statuses Phase 5 takes records from
RescoredFrom(retry) ==
  {Plain(SUCCESS), Plain(NEEDS_EDIT)} \cup
  (IF retry THEN {Plain(FAILED_RESCORING), Plain(MISSING_TAILORED_HTML), Plain(SCORE_COMPARISON)} ELSE {})

\* the fields of a record Phase 5 has no business with are the same in
\* both versions of it
KeptByPhase5(old, new) ==
  /\ new.attempts = old.attempts
  /\ new.total = old.total
  /\ new.html = old.html
  /\ new.jd = old.jd

P5RowStep == run = "p5" /\ run' = "p5" /\ todo # <<>> /\ todo' = Tail(todo)

\* the step made no scorer call, gave the record this status and left its
\* tailored score (and with it the score change) empty
GivenUp(r, status) ==
  /\ invocations' = invocations
  /\ df'[r].Status = Plain(status)
  /\ df'[r].tailored = NA

\* C39: Phase 5 makes no scorer call, and so no Oracle request, for a
\* record whose tailored HTML file is missing or cannot be read, whose
\* job description is shorter than 50 characters, or whose original total
\* is missing; the status it records tells the three cases apart, and the
\* tailored score is left empty.  A scorer call is made only for a record
\* with none of these faults.
C39_NoRequestForFaultyRecord ==
  [][P5RowStep =>
       LET r == Head(todo)
           noFile == ~(df[r].html /\ disk[r])
           shortJd == df[r].jd.stripped < 50
           noTotal == df[r].total = NA
       IN /\ (noFile => GivenUp(r, MISSING_TAILORED_HTML))
          /\ (~noFile /\ shortJd => GivenUp(r, MISSING_DATA))
          /\ (~noFile /\ ~shortJd /\ noTotal => GivenUp(r, SCORE_COMPARISON))
          /\ (df'[r].effectiveness = "Error - HTML Read Failed" => GivenUp(r, MISSING_TAILORED_HTML))
          /\ (invocations' # invocations =>
                /\ ~noFile /\ ~shortJd /\ ~noTotal
                /\ invocations' = Append(invocations, invocations'[Len(invocations')])
                /\ invocations'[Len(invocations')].row = r
                /\ invocations'[Len(invocations')].requests <= 1)
          /\ Cardinality({MISSING_TAILORED_HTML, MISSING_DATA, SCORE_COMPARISON}) = 3]_vars

\* a pass that gave up on a record without its original total and rescored
\* the other with one scorer call
C39_Witness ==
  /\ run = "p5"
  /\ todo = <<>>
  /\ Len(invocations) = 1
  /\ \E r, q \in DOMAIN store :
       /\ store[r].total = NA /\ disk[r]
       /\ df[r].Status = Plain(SCORE_COMPARISON) /\ df[r].tailored = NA
       /\ invocations[1].row = q
       /\ df[q].Status = Plain(IMPROVED)

\* ------------------------------------------------------------------------
\* C40: what the engine gets back from the Oracle client
\* ------------------------------------------------------------------------

\* C40: in JSON mode call_gemini_api returns a mapping whenever it returns,
\* a parsed object or an error marker, also when the return follows
\* rate-limit retries; the engine therefore never sets the status of a
\* response that is not a mapping, and never records such a response in
\* its history or as its latest Oracle data.
C40_JsonModeReturnsMapping ==
  /\ (api_pc = "ret" /\ is_json_output => gemini_response.type = "dict")
  /\ final_status.marker # "Invalid Resp Att."
  /\ \A i \in 1..Len(trace) :
       trace[i].ev = "oracle" => trace[i].val.type = "dict"

\* the client returns to the engine after a rate-limit retry with a reply
\* whose JSON is not an object, and the engine has ended on it
C40_Witness ==
  /\ pc = "done"
  /\ Len(api_log) > 1
  /\ api_log[1] = BusyOutcome
  /\ api_log[Len(api_log)] = "not_object"
  /\ gemini_response = ErrorMarker("Parsed response is not JSON object", {"raw_response"})
  /\ final_status.marker = "API Err Att."


====
